---------------------------- MODULE Spec2Model ----------------------------
(***************************************************************************)
(* Ghostwriter: the agent execution core.                                  *)
(*                                                                         *)
(*   - the safety gate of the builtin tools (run_command, write_file,      *)
(*     append_file, delete_file) with the project policy of config.ts;     *)
(*   - the two dispatchers (tools/index.ts executeTool behind              *)
(*     Agent.executeToolCall, and ToolManager.executeTool);                *)
(*   - the bounded tool loop Agent.run and AgentManager.handleInput.       *)
(*                                                                         *)
(* Strings are TLA+ strings handled as character sequences, so prefix,     *)
(* substring and regular-expression tests are computed as the code does.   *)
(***************************************************************************)
EXTENDS Integers, Sequences, FiniteSets, TLC

(***************************************************************************)
(* String helpers (String.prototype methods used by the code)              *)
(***************************************************************************)
CharAt(s, i) == SubSeq(s, i, i)

StartsWith(s, p) == Len(p) <= Len(s) /\ SubSeq(s, 1, Len(p)) = p

EndsWith(s, p) == Len(p) <= Len(s) /\ SubSeq(s, Len(s) - Len(p) + 1, Len(s)) = p

Includes(s, sub) ==
  \E i \in 1..(Len(s) + 1) :
     i + Len(sub) - 1 <= Len(s) /\ SubSeq(s, i, i + Len(sub) - 1) = sub

IsWs(c) == c \in {" ", "\t", "\n", "\r"}

RECURSIVE Trim(_)
Trim(s) ==
  IF s = "" THEN ""
  ELSE IF IsWs(CharAt(s, 1)) THEN Trim(SubSeq(s, 2, Len(s)))
  ELSE IF IsWs(CharAt(s, Len(s))) THEN Trim(SubSeq(s, 1, Len(s) - 1))
  ELSE s

UpperLetters == "ABCDEFGHIJKLMNOPQRSTUVWXYZ"
LowerLetters == "abcdefghijklmnopqrstuvwxyz"

LowerChar(c) ==
  IF \E n \in 1..Len(UpperLetters) : CharAt(UpperLetters, n) = c
    THEN CharAt(LowerLetters, CHOOSE n \in 1..Len(UpperLetters) : CharAt(UpperLetters, n) = c)
    ELSE c

RECURSIVE ToLowerCase(_)
ToLowerCase(s) ==
  IF s = "" THEN "" ELSE LowerChar(CharAt(s, 1)) \o ToLowerCase(SubSeq(s, 2, Len(s)))

(***************************************************************************)
(* A regular expression of the shapes DANGEROUS_PATTERNS uses: a sequence  *)
(* of literal characters, optional characters, \s+ and \s*.  The flag i is *)
(* applied by lower-casing the subject (every literal is lower case).      *)
(***************************************************************************)
Lit(str) == [i \in 1..Len(str) |-> [k |-> "lit", c |-> CharAt(str, i)]]
Opt(ch) == << [k |-> "opt", c |-> ch] >>
WsPlus == << [k |-> "ws+", c |-> " "] >>
WsStar == << [k |-> "ws*", c |-> " "] >>

RECURSIVE MatchFrom(_, _, _, _)
MatchFrom(s, i, p, j) ==
  IF j > Len(p) THEN TRUE
  ELSE LET t == p[j]
           here == i <= Len(s)
       IN CASE t.k = "lit" ->
                 here /\ CharAt(s, i) = t.c /\ MatchFrom(s, i + 1, p, j + 1)
            [] t.k = "opt" ->
                 \/ here /\ CharAt(s, i) = t.c /\ MatchFrom(s, i + 1, p, j + 1)
                 \/ MatchFrom(s, i, p, j + 1)
            [] t.k = "ws+" ->
                 here /\ IsWs(CharAt(s, i))
                      /\ (MatchFrom(s, i + 1, p, j) \/ MatchFrom(s, i + 1, p, j + 1))
            [] t.k = "ws*" ->
                 \/ MatchFrom(s, i, p, j + 1)
                 \/ here /\ IsWs(CharAt(s, i)) /\ MatchFrom(s, i + 1, p, j)

\* RegExp.prototype.test with flag i, for a pattern given as a set of alternatives
RegexTest(alts, s) ==
  LET Search(subject) ==
        \E p \in alts : \E i \in 1..(Len(subject) + 1) : MatchFrom(subject, i, p, 1)
  IN Search(ToLowerCase(s))

DANGEROUS_PATTERNS ==
  << { Lit("rm") \o WsPlus \o Lit("-r") \o Opt("f"),
       Lit("rm") \o WsPlus \o Lit("--recursive") },
     { Lit("sudo") },
     { Lit("chmod") \o WsPlus \o Lit("777") },
     { Lit(">") \o WsStar \o Lit("/dev/") },
     { Lit("mkfs") },
     { Lit("dd") \o WsPlus \o Lit("if=") },
     { Lit(":()") \o WsStar \o Lit("{") \o WsStar \o Lit(":|:") \o WsStar
         \o Lit("&") \o WsStar \o Lit("}") \o WsStar \o Lit(";") } >>

isDangerousCommand(command) ==
  LET Some(patterns) == \E n \in 1..Len(patterns) : RegexTest(patterns[n], command)
  IN Some(DANGEROUS_PATTERNS)

(***************************************************************************)
(* node:path on POSIX: resolve, normalize, dirname                          *)
(***************************************************************************)
RECURSIVE SplitPath(_, _)
\* the segments of s between "/" (cur is the segment being read)
SplitPath(s, cur) ==
  IF s = "" THEN << cur >>
  ELSE IF CharAt(s, 1) = "/" THEN << cur >> \o SplitPath(SubSeq(s, 2, Len(s)), "")
  ELSE SplitPath(SubSeq(s, 2, Len(s)), cur \o CharAt(s, 1))

RECURSIVE NormalizeSegments(_, _)
\* drop "" and ".", let ".." remove the segment before it (never above the root)
NormalizeSegments(segs, acc) ==
  IF segs = << >> THEN acc
  ELSE LET h == Head(segs)
       IN IF h = "" \/ h = "." THEN NormalizeSegments(Tail(segs), acc)
          ELSE IF h = ".."
               THEN NormalizeSegments(Tail(segs),
                      IF acc = << >> THEN acc ELSE SubSeq(acc, 1, Len(acc) - 1))
          ELSE NormalizeSegments(Tail(segs), Append(acc, h))

RECURSIVE JoinPath(_)
JoinPath(segs) ==
  IF segs = << >> THEN "" ELSE "/" \o Head(segs) \o JoinPath(Tail(segs))

AbsoluteFromSegments(segs) == IF segs = << >> THEN "/" ELSE JoinPath(segs)

\* path.resolve(from, to) for an absolute `from`
PathResolve(from, to) ==
  LET joined == IF StartsWith(to, "/") THEN to ELSE from \o "/" \o to
  IN AbsoluteFromSegments(NormalizeSegments(SplitPath(joined, ""), << >>))

\* path.normalize(p) for an absolute p (a trailing separator is kept)
PathNormalize(p) ==
  LET Trailing(body) ==
        IF Len(p) > 1 /\ EndsWith(p, "/") /\ body # "/" THEN body \o "/" ELSE body
  IN Trailing(AbsoluteFromSegments(NormalizeSegments(SplitPath(p, ""), << >>)))

\* path.dirname(p) for a resolved absolute p
PathDirname(p) ==
  LET Parent(segs) ==
        IF segs = << >> THEN "/" ELSE AbsoluteFromSegments(SubSeq(segs, 1, Len(segs) - 1))
  IN Parent(NormalizeSegments(SplitPath(p, ""), << >>))

(***************************************************************************)
(* Values                                                                  *)
(***************************************************************************)
\* a missing argument or field (JavaScript undefined); never a path or a command
Undefined == "<undefined>"

\* JavaScript falsiness of a string-or-undefined value
Falsy(v) == v = Undefined \/ v = ""

NoData == [kind |-> "none", code |-> 0, timedOut |-> FALSE, stdout |-> ""]
Data(kind) == [kind |-> kind, code |-> 0, timedOut |-> FALSE, stdout |-> ""]

\* ToolResult
Ok(data) == [success |-> TRUE, error |-> "", data |-> data]
Fail(error) == [success |-> FALSE, error |-> error, data |-> NoData]
NoResult == [success |-> FALSE, error |-> "<pending>", data |-> NoData]

\* error texts (the message of the source, without its interpolated values)
ERR_UNKNOWN_TOOL == "unknown tool"
ERR_NO_PERMISSION == "agent may not use tool"
ERR_TOOL_EXCEPTION == "tool execution exception"
ERR_BUILTIN_EXCEPTION == "builtin tool execution exception"
ERR_MCP_EXCEPTION == "MCP tool execution exception"
ERR_MCP_NOT_FOUND == "tool not found"
ERR_MCP_CALL_FAILED == "MCP tool call failed"
ERR_MCP_IS_ERROR == "MCP response isError"
ERR_PATH_REQUIRED == "file path is required"
ERR_CONTENT_REQUIRED == "content is required"
ERR_WRITE_DENIED == "path not allowed for write"
ERR_DELETE_DENIED == "path not allowed for delete"
ERR_DELETE_WORKDIR == "cannot delete working directory or its parent"
ERR_NOT_EXIST == "does not exist"
ERR_NOT_FILE == "not a file"
ERR_NOT_DIR == "not a directory"
ERR_QUERY_REQUIRED == "search query is required"
ERR_CANCELLED == "user cancelled operation"
ERR_CMD_REQUIRED == "command is required"
ERR_CMD_CANCELLED == "user cancelled command execution"
ERR_CMD_FAILED == "command execution failed"
ERR_WRITE_FAILED == "write file failed"
ERR_APPEND_FAILED == "append file failed"
ERR_DELETE_FAILED == "delete failed"

(***************************************************************************)
(* config.ts                                                               *)
(***************************************************************************)
maxToolLoops == 8

DEFAULT_PROJECT_CONFIG ==
  [ allow_commands    |-> << >>,
    allow_write_paths |-> << >>,
    deny_paths        |-> << "node_modules", ".git", ".env", ".env.local" >> ]

createAppConfig(workingDirectory, autoConfirm, projectConfig) ==
  [ workingDirectory |-> workingDirectory,
    autoConfirm      |-> autoConfirm,
    project          |-> projectConfig,
    maxToolLoops     |-> maxToolLoops ]

isCommandAllowed(command, config) ==
  LET allowedCommands == config.project.allow_commands
  IN \/ \E n \in 1..Len(allowedCommands) : allowedCommands[n] = command
     \/ \E n \in 1..Len(allowedCommands) :
          LET allowed == allowedCommands[n]
          IN /\ EndsWith(allowed, "*")
             /\ StartsWith(command, SubSeq(allowed, 1, Len(allowed) - 1))

\* a plausible slip: the allow-list is consulted first and a hit returns true
isPathAllowedForWrite_allowFirst(filePath, config) ==
  LET denyPaths == config.project.deny_paths
      allowPaths == config.project.allow_write_paths
      Decide(normalizedPath) ==
        IF Len(allowPaths) > 0
          THEN \E n \in 1..Len(allowPaths) : StartsWith(normalizedPath, allowPaths[n])
          ELSE ~ \E n \in 1..Len(denyPaths) : Includes(normalizedPath, denyPaths[n])
  IN Decide(PathNormalize(filePath))

isPathAllowedForWrite(filePath, config) ==
  LET denyPaths == config.project.deny_paths
      allowPaths == config.project.allow_write_paths
      Decide(normalizedPath) ==
        IF \E n \in 1..Len(denyPaths) : Includes(normalizedPath, denyPaths[n])
          THEN FALSE
          ELSE IF Len(allowPaths) > 0
                 THEN \E n \in 1..Len(allowPaths) : StartsWith(normalizedPath, allowPaths[n])
                 ELSE TRUE
  IN Decide(PathNormalize(filePath))

(***************************************************************************)
(* agent/sub-agent.ts                                                      *)
(***************************************************************************)
AgentTypes == { "main", "test", "review", "refactor", "custom" }

\* the own properties of the presets object (main and custom have no maxLoops)
AGENT_PRESETS ==
  [ main     |-> [ availableTools |-> << "list_files", "read_file", "write_file", "append_file",
                                         "delete_file", "run_command", "search_codebase" >> ],
    test     |-> [ availableTools |-> << "list_files", "read_file", "write_file", "run_command",
                                         "search_codebase" >>,
                   maxLoops |-> 5 ],
    review   |-> [ availableTools |-> << "list_files", "read_file", "search_codebase" >>,
                   maxLoops |-> 3 ],
    refactor |-> [ availableTools |-> << "list_files", "read_file", "write_file",
                                         "search_codebase" >>,
                   maxLoops |-> 6 ],
    custom   |-> [ availableTools |-> << "list_files", "read_file", "write_file", "run_command",
                                         "search_codebase" >> ] ]

\* AGENT_PRESETS is an object literal: besides its own properties, AGENT_PRESETS[key]
\* finds what every object inherits from Object.prototype (functions, and the
\* prototype itself), all truthy and none with an own enumerable property
ObjectPrototypeKeys ==
  { "constructor", "__proto__", "hasOwnProperty", "isPrototypeOf", "propertyIsEnumerable",
    "toLocaleString", "toString", "valueOf", "__defineGetter__", "__defineSetter__",
    "__lookupGetter__", "__lookupSetter__" }

\* AGENT_PRESETS[type] is truthy
PresetFound(type) == type \in DOMAIN AGENT_PRESETS \/ type \in ObjectPrototypeKeys

\* obj.key is not undefined
Has(obj, key) == key \in DOMAIN obj

\* { type, ...preset }: the spread copies the own enumerable properties of preset
getAgentConfig(type) ==
  IF type \in DOMAIN AGENT_PRESETS
    THEN LET preset == AGENT_PRESETS[type]
         IN IF Has(preset, "maxLoops")
              THEN [ type |-> type, availableTools |-> preset.availableTools,
                     maxLoops |-> preset.maxLoops ]
              ELSE [ type |-> type, availableTools |-> preset.availableTools ]
    ELSE [ type |-> type ]

\* createCustomAgentConfig(name, systemPrompt, availableTools?): the optional
\* argument is << >> when omitted and << list >> when given (an empty list is truthy)
createCustomAgentConfig(name, systemPrompt, availableTools) ==
  [ type |-> "custom", name |-> name, systemPrompt |-> systemPrompt,
    availableTools |-> IF availableTools = << >> THEN AGENT_PRESETS.custom.availableTools
                       ELSE availableTools[1] ]

\* Array.prototype.includes
ArrayIncludes(arr, v) == \E n \in 1..Len(arr) : arr[n] = v

(***************************************************************************)
(* tools/index.ts: the registry of builtin tools                           *)
(***************************************************************************)
tools ==
  { "list_files", "read_file", "write_file", "append_file", "delete_file", "run_command",
    "search_codebase" }

\* getTool(name) is defined (not undefined)
getTool(name) == name \in tools

(***************************************************************************)
(* The disk, as node:fs sees it: every path is absent, a directory or a    *)
(* file with a content.                                                    *)
(***************************************************************************)
Absent == [kind |-> "none", content |-> ""]
Dir == [kind |-> "dir", content |-> ""]
File(content) == [kind |-> "file", content |-> content]

RECURSIVE AncestorsOf(_)
AncestorsOf(p) ==
  LET Up(parent) == { parent } \cup AncestorsOf(parent)
  IN IF p = "/" THEN { } ELSE Up(PathDirname(p))

existsSync(disk, p) == p \in DOMAIN disk /\ disk[p].kind # "none"

DescendantsOf(disk, p) ==
  { q \in DOMAIN disk : q # p /\ StartsWith(q, IF p = "/" THEN "/" ELSE p \o "/") }

\* fs.mkdirSync(dir, {recursive: true}): ok is FALSE when it throws
mkdirSync(disk, dir) ==
  LET Make(chain) ==
        IF \E a \in chain : a \notin DOMAIN disk \/ disk[a].kind = "file"
          THEN [ok |-> FALSE, disk |-> disk]
          ELSE [ok |-> TRUE,
                disk |-> [q \in DOMAIN disk |-> IF q \in chain THEN Dir ELSE disk[q]]]
  IN Make(AncestorsOf(dir) \cup { dir })

\* dirname check and mkdir of write_file and append_file, then the write itself;
\* fs.writeFileSync replaces the old content, fs.appendFileSync extends it
WriteThrough(disk, fullPath, content, append) ==
  LET Write(dirPath, made, d) ==
        IF ~made.ok THEN [ok |-> FALSE, disk |-> d]
        ELSE IF fullPath \notin DOMAIN d \/ d[dirPath].kind # "dir" \/ d[fullPath].kind = "dir"
               THEN [ok |-> FALSE, disk |-> d]
        ELSE [ok |-> TRUE,
              disk |-> [d EXCEPT ![fullPath] =
                          File(IF append THEN d[fullPath].content \o content ELSE content)]]
      Made(dirPath, made) == Write(dirPath, made, made.disk)
      In(dirPath) ==
        Made(dirPath, IF existsSync(disk, dirPath) THEN [ok |-> TRUE, disk |-> disk]
                      ELSE mkdirSync(disk, dirPath))
  IN In(PathDirname(fullPath))

\* fs.rmSync(p, {recursive: true, force: true})
rmSync(disk, p) ==
  [ok |-> TRUE,
   disk |-> [q \in DOMAIN disk |->
               IF q = p \/ q \in DescendantsOf(disk, p) THEN Absent ELSE disk[q]]]

\* fs.rmdirSync(p): throws on a directory that is not empty
rmdirSync(disk, p) ==
  IF \E q \in DescendantsOf(disk, p) : disk[q].kind # "none"
    THEN [ok |-> FALSE, disk |-> disk]
    ELSE [ok |-> TRUE, disk |-> [disk EXCEPT ![p] = Absent]]

\* fs.unlinkSync(p)
unlinkSync(disk, p) == [ok |-> TRUE, disk |-> [disk EXCEPT ![p] = Absent]]

(***************************************************************************)
(* Tool calls and the execution context                                    *)
(***************************************************************************)
NoArgs ==
  [ path |-> Undefined, content |-> Undefined, command |-> Undefined,
    recursive |-> FALSE, query |-> Undefined ]

ToolCall(name, arguments) == [name |-> name, arguments |-> arguments]

\* Agent.createToolContext (confirmAction is confirmActionAuto / the prompt below)
createToolContext(config) ==
  [ workingDirectory |-> config.workingDirectory,
    config           |-> config,
    autoConfirm      |-> config.autoConfirm ]

\* a plausible slip: auto-confirm answers every prompt, whatever the risk level
confirmActionAuto_anyRisk(config, riskLevel) == config.autoConfirm

\* confirmAction returns true by itself, without calling confirm()
confirmActionAuto(config, riskLevel) == config.autoConfirm /\ riskLevel # "high"

\* what the synchronous part of a tool's execute decides
Return(result) == [next |-> "return", result |-> result, risk |-> "none"]
AskConfirm(riskLevel) == [next |-> "confirm", result |-> NoResult, risk |-> riskLevel]
Proceed == [next |-> "go", result |-> NoResult, risk |-> "none"]

\* what the part of execute after the confirmation does
Applied(result, disk, effect) ==
  [next |-> "return", result |-> result, disk |-> disk, effect |-> effect]
Spawned(disk) ==
  [next |-> "spawn", result |-> NoResult, disk |-> disk, effect |-> "run_command"]

(***************************************************************************)
(* tools/write_file.ts                                                     *)
(***************************************************************************)
writeFile_check(args, context, disk) ==
  IF Falsy(args.path) THEN Return(Fail(ERR_PATH_REQUIRED))
  ELSE IF args.content = Undefined THEN Return(Fail(ERR_CONTENT_REQUIRED))
  ELSE IF ~isPathAllowedForWrite(PathResolve(context.workingDirectory, args.path),
                                 context.config)
    THEN Return(Fail(ERR_WRITE_DENIED))
  ELSE IF ~context.autoConfirm THEN AskConfirm("medium")
  ELSE Proceed

writeFile_apply(args, context, disk) ==
  LET Written(w) ==
        Applied(IF w.ok THEN Ok(Data("WriteFileResult")) ELSE Fail(ERR_WRITE_FAILED),
                w.disk, "write_file")
  IN Written(WriteThrough(disk, PathResolve(context.workingDirectory, args.path),
                          args.content, FALSE))

(***************************************************************************)
(* tools/append_file.ts                                                    *)
(***************************************************************************)
appendFile_check(args, context, disk) ==
  IF Falsy(args.path) THEN Return(Fail(ERR_PATH_REQUIRED))
  ELSE IF args.content = Undefined THEN Return(Fail(ERR_CONTENT_REQUIRED))
  ELSE IF ~isPathAllowedForWrite(PathResolve(context.workingDirectory, args.path),
                                 context.config)
    THEN Return(Fail(ERR_WRITE_DENIED))
  ELSE IF ~context.autoConfirm THEN AskConfirm("medium")
  ELSE Proceed

appendFile_apply(args, context, disk) ==
  LET Written(w) ==
        Applied(IF w.ok THEN Ok(Data("AppendFileResult")) ELSE Fail(ERR_APPEND_FAILED),
                w.disk, "append_file")
  IN Written(WriteThrough(disk, PathResolve(context.workingDirectory, args.path),
                          args.content, TRUE))

(***************************************************************************)
(* tools/delete_file.ts                                                    *)
(***************************************************************************)
\* a plausible slip: the guard of the working directory is missing
deleteFile_check_noWorkdirGuard(args, context, disk) ==
  LET Checked(fullPath) ==
        IF ~isPathAllowedForWrite(fullPath, context.config)
          THEN Return(Fail(ERR_DELETE_DENIED))
        ELSE IF ~existsSync(disk, fullPath) THEN Return(Fail(ERR_NOT_EXIST))
        ELSE AskConfirm("high")
  IN IF Falsy(args.path) THEN Return(Fail(ERR_PATH_REQUIRED))
     ELSE Checked(PathResolve(context.workingDirectory, args.path))

deleteFile_check(args, context, disk) ==
  LET Checked(fullPath) ==
        IF ~isPathAllowedForWrite(fullPath, context.config)
          THEN Return(Fail(ERR_DELETE_DENIED))
        ELSE IF StartsWith(context.workingDirectory, fullPath)
          THEN Return(Fail(ERR_DELETE_WORKDIR))
        ELSE IF ~existsSync(disk, fullPath) THEN Return(Fail(ERR_NOT_EXIST))
        ELSE AskConfirm("high")
  IN IF Falsy(args.path) THEN Return(Fail(ERR_PATH_REQUIRED))
     ELSE Checked(PathResolve(context.workingDirectory, args.path))

\* isDir is the stat taken before the confirmation
deleteFile_apply(args, context, disk, isDir) ==
  LET Deleted(d) ==
        Applied(IF d.ok THEN Ok(Data("DeleteFileResult")) ELSE Fail(ERR_DELETE_FAILED),
                d.disk, "delete_file")
      Delete(fullPath) ==
        Deleted(IF isDir
                  THEN IF args.recursive THEN rmSync(disk, fullPath)
                       ELSE rmdirSync(disk, fullPath)
                  ELSE unlinkSync(disk, fullPath))
  IN Delete(PathResolve(context.workingDirectory, args.path))

(***************************************************************************)
(* tools/run_command.ts                                                    *)
(***************************************************************************)
\* a plausible slip: the whitelist is applied after the dangerous check
needConfirm_whitelistLast(autoConfirm, inWhitelist, dangerous) ==
  LET n1 == ~autoConfirm
      n2 == IF dangerous THEN TRUE ELSE n1
  IN IF inWhitelist THEN FALSE ELSE n2

\* a plausible slip: the initial value ignores autoConfirm being off
needConfirm_neverByDefault(autoConfirm, inWhitelist, dangerous) ==
  LET n1 == FALSE
      n2 == IF inWhitelist /\ ~dangerous THEN FALSE ELSE n1
  IN IF dangerous THEN TRUE ELSE n2

needConfirm(autoConfirm, inWhitelist, dangerous) ==
  LET n1 == ~autoConfirm
      n2 == IF inWhitelist /\ ~dangerous THEN FALSE ELSE n1
  IN IF dangerous THEN TRUE ELSE n2

runCommand_check(args, context, disk) ==
  LET command == args.command
      Gate(dangerous, inWhitelist) ==
        IF needConfirm(context.autoConfirm, inWhitelist, dangerous)
          THEN AskConfirm(IF dangerous THEN "high" ELSE "medium")
          ELSE Proceed
  IN IF Falsy(command) \/ Trim(command) = "" THEN Return(Fail(ERR_CMD_REQUIRED))
     ELSE Gate(isDangerousCommand(command), isCommandAllowed(command, context.config))

\* a plausible slip: a dry run, the result is reported without starting the command
runCommand_apply_dryRun(args, context, disk) ==
  Applied(Ok(Data("RunCommandResult")), disk, "none")

runCommand_apply(args, context, disk) == Spawned(disk)

(***************************************************************************)
(* tools/read_file.ts, list_files.ts, search_codebase.ts (no confirmation) *)
(***************************************************************************)
readFile_check(args, context, disk) ==
  LET Read(fullPath) ==
        IF ~existsSync(disk, fullPath) THEN Return(Fail(ERR_NOT_EXIST))
        ELSE IF disk[fullPath].kind # "file" THEN Return(Fail(ERR_NOT_FILE))
        ELSE Return(Ok(Data("ReadFileResult")))
  IN IF Falsy(args.path) THEN Return(Fail(ERR_PATH_REQUIRED))
     ELSE Read(PathResolve(context.workingDirectory, args.path))

listFiles_check(args, context, disk) ==
  LET List(fullPath) ==
        IF ~existsSync(disk, fullPath) THEN Return(Fail(ERR_NOT_EXIST))
        ELSE IF disk[fullPath].kind # "dir" THEN Return(Fail(ERR_NOT_DIR))
        ELSE Return(Ok(Data("ListFilesResult")))
  IN List(IF Falsy(args.path) THEN context.workingDirectory
          ELSE PathResolve(context.workingDirectory, args.path))

searchCodebase_check(args, context, disk) ==
  IF Falsy(args.query) \/ Trim(args.query) = "" THEN Return(Fail(ERR_QUERY_REQUIRED))
  ELSE LET basePath == IF Falsy(args.path) THEN context.workingDirectory
                       ELSE PathResolve(context.workingDirectory, args.path)
       IN IF ~existsSync(disk, basePath) THEN Return(Fail(ERR_NOT_EXIST))
          ELSE Return(Ok(Data("SearchCodebaseResult")))

(***************************************************************************)
(* ToolDefinition.execute of the registered tool `name`, in its two parts  *)
(***************************************************************************)
toolExecute_check(name, args, context, disk) ==
  CASE name = "write_file"      -> writeFile_check(args, context, disk)
    [] name = "append_file"     -> appendFile_check(args, context, disk)
    [] name = "delete_file"     -> deleteFile_check(args, context, disk)
    [] name = "run_command"     -> runCommand_check(args, context, disk)
    [] name = "read_file"       -> readFile_check(args, context, disk)
    [] name = "list_files"      -> listFiles_check(args, context, disk)
    [] name = "search_codebase" -> searchCodebase_check(args, context, disk)

toolExecute_apply(name, args, context, disk, isDir) ==
  CASE name = "write_file"  -> writeFile_apply(args, context, disk)
    [] name = "append_file" -> appendFile_apply(args, context, disk)
    [] name = "delete_file" -> deleteFile_apply(args, context, disk, isDir)
    [] name = "run_command" -> runCommand_apply(args, context, disk)

\* the result of execute when the confirmation is declined
toolExecute_declined(name) ==
  IF name = "run_command" THEN Fail(ERR_CMD_CANCELLED) ELSE Fail(ERR_CANCELLED)

(***************************************************************************)
(* One tool invocation: the call, what the user saw and answered, what was *)
(* done, and the ToolResult.                                               *)
(*   status   "confirm"  confirm() is waiting for the user's answer        *)
(*            "cmd"      executeCommand is waiting for the subprocess      *)
(*            "mcp"      MCPManager.callTool is waiting for a server       *)
(*            "done"     the dispatcher returned `result`                  *)
(*            "threw"    the dispatcher threw                              *)
(***************************************************************************)
NoCall == ToolCall("", NoArgs)

IdleInvocation ==
  [ status |-> "none", via |-> "none", agent |-> "none", call |-> NoCall, prompted |-> FALSE, risk |-> "none",
    answer |-> "none", effect |-> "none", isDir |-> FALSE, builtinExecs |-> 0,
    mcpRequests |-> 0, result |-> NoResult ]

NewInvocation(via, agent, call) ==
  [IdleInvocation EXCEPT !.status = "start", !.via = via, !.agent = agent, !.call = call]

NoProc == [alive |-> FALSE, killed |-> FALSE, stdout |-> ""]

Step(i, d, p) == [inv |-> i, disk |-> d, proc |-> p]

Finished(i, result) == [i EXCEPT !.status = "done", !.result = result]

\* execute, from the settled confirmation on
InvocationApply(i, context, d) ==
  LET After(a) ==
        IF a.next = "spawn"
          THEN Step([i EXCEPT !.effect = a.effect, !.status = "cmd"], a.disk,
                    [alive |-> TRUE, killed |-> FALSE, stdout |-> ""])
          ELSE Step(Finished([i EXCEPT !.effect = a.effect], a.result), a.disk, NoProc)
  IN After(toolExecute_apply(i.call.name, i.call.arguments, context, d, i.isDir))

\* tool.execute(toolCall.arguments, context), up to its first suspension
InvocationExecute(i, config, d) ==
  LET context == createToolContext(config)
      args == i.call.arguments
      Entered(c, j) ==
        CASE c.next = "return" -> Step(Finished(j, c.result), d, NoProc)
          [] c.next = "go" -> InvocationApply(j, context, d)
          [] c.next = "confirm" ->
               IF confirmActionAuto(config, c.risk)
                 THEN InvocationApply([j EXCEPT !.risk = c.risk, !.answer = "auto"],
                                      context, d)
                 ELSE Step([j EXCEPT !.status = "confirm", !.risk = c.risk,
                                     !.prompted = TRUE], d, NoProc)
      Checked(c) ==
        Entered(c, [i EXCEPT !.builtinExecs = @ + 1,
                             !.isDir = /\ i.call.name = "delete_file"
                                       /\ c.next = "confirm"
                                       /\ d[PathResolve(context.workingDirectory,
                                                        args.path)].kind = "dir"])
  IN Checked(toolExecute_check(i.call.name, args, context, d))

\* tools/index.ts executeTool (no registered tool's execute throws, so its catch
\* and ERR_TOOL_EXCEPTION are never taken)
executeTool(i, config, d) ==
  IF ~getTool(i.call.name) THEN Step(Finished(i, Fail(ERR_UNKNOWN_TOOL)), d, NoProc)
  ELSE InvocationExecute(i, config, d)

\* a plausible slip: the check against availableTools is missing
Agent_executeToolCall_unchecked(i, agentConfig, config, d) == executeTool(i, config, d)

\* Agent.executeToolCall; agentConfig.availableTools is undefined for an agent
\* built from an inherited property of AGENT_PRESETS, and .includes then throws
Agent_executeToolCall(i, agentConfig, config, d) ==
  IF ~getTool(i.call.name) THEN Step(Finished(i, Fail(ERR_UNKNOWN_TOOL)), d, NoProc)
  ELSE IF ~Has(agentConfig, "availableTools") THEN Step([i EXCEPT !.status = "threw"], d, NoProc)
  ELSE IF ~ArrayIncludes(agentConfig.availableTools, i.call.name)
    THEN Step(Finished(i, Fail(ERR_NO_PERMISSION)), d, NoProc)
  ELSE executeTool(i, config, d)

\* a plausible slip: a builtin that fails falls through to the capability servers
ToolManager_executeTool_fallThrough(i, config, d, mcpEnabled) ==
  LET Builtin(b) ==
        IF ~(b.inv.status = "done" /\ ~b.inv.result.success) THEN b
        ELSE IF mcpEnabled
          THEN Step([b.inv EXCEPT !.status = "mcp", !.mcpRequests = @ + 1], d, NoProc)
        ELSE Step(Finished(i, Fail(ERR_UNKNOWN_TOOL)), d, NoProc)
  IN IF getTool(i.call.name) THEN Builtin(InvocationExecute(i, config, d))
     ELSE IF mcpEnabled
       THEN Step([i EXCEPT !.status = "mcp", !.mcpRequests = @ + 1], d, NoProc)
     ELSE Step(Finished(i, Fail(ERR_UNKNOWN_TOOL)), d, NoProc)

\* ToolManager.executeTool (the catch around the builtin is never taken either)
ToolManager_executeTool(i, config, d, mcpEnabled) ==
  IF getTool(i.call.name) THEN InvocationExecute(i, config, d)
  ELSE IF mcpEnabled
    THEN Step([i EXCEPT !.status = "mcp", !.mcpRequests = @ + 1], d, NoProc)
  ELSE Step(Finished(i, Fail(ERR_UNKNOWN_TOOL)), d, NoProc)

\* a plausible slip: the answer is recorded and the tool goes on all the same
InvocationAnswer_ignored(i, config, d, yes) ==
  InvocationApply([i EXCEPT !.answer = IF yes THEN "yes" ELSE "no"], createToolContext(config), d)

\* ui/prompt.ts confirm(): the user's answer y / yes, or anything else
InvocationAnswer(i, config, d, yes) ==
  IF yes THEN InvocationApply([i EXCEPT !.answer = "yes"], createToolContext(config), d)
  ELSE Step(Finished([i EXCEPT !.answer = "no"], toolExecute_declined(i.call.name)), d, NoProc)

\* a plausible slip: a timeout rejects the promise, execute's catch makes it a failure
InvocationClose_timeoutRejects(i, d, p, code) ==
  Step(Finished(i, IF p.killed THEN Fail(ERR_CMD_FAILED)
                   ELSE Ok([kind |-> "RunCommandResult", code |-> code, timedOut |-> FALSE,
                            stdout |-> p.stdout])),
       d, NoProc)

\* executeCommand: the 'close' handler
InvocationClose(i, d, p, code) ==
  Step(Finished(i, Ok([kind |-> "RunCommandResult",
                       code |-> IF p.killed THEN -1 ELSE code,
                       timedOut |-> p.killed,
                       stdout |-> p.stdout])),
       d, NoProc)

\* executeCommand: the 'error' handler rejects, execute's catch turns it into a failure
InvocationError(i, d) == Step(Finished(i, Fail(ERR_CMD_FAILED)), d, NoProc)

\* MCPManager.callTool: findToolServer over the connected servers, then the call
findToolServerHit(servers, toolName) == \E sv \in DOMAIN servers : toolName \in servers[sv]

\* what the servers do during one callTool: the tool is still listed and the call
\* gives content, an isError response or throws; or no server lists the tool any
\* more; or listTools throws on the servers that listed it
McpOutcomes == { "ok", "isError", "throw", "unlisted", "listFails" }

\* a plausible slip: callTool without its try / catch, findToolServer throwing
\* when nothing is found
InvocationMcp_uncaught(i, d, servers, outcome) ==
  IF outcome \in { "ok", "isError" } /\ findToolServerHit(servers, i.call.name)
    THEN Step(Finished(i, IF outcome = "ok" THEN Ok(Data("MCPContent"))
                          ELSE Fail(ERR_MCP_IS_ERROR)),
              d, NoProc)
    ELSE Step([i EXCEPT !.status = "threw"], d, NoProc)

\* servers is what the servers listed when the schema was exported
InvocationMcp(i, d, servers, outcome) ==
  Step(Finished(i,
         IF ~findToolServerHit(servers, i.call.name) THEN Fail(ERR_MCP_NOT_FOUND)
         ELSE CASE outcome = "ok" -> Ok(Data("MCPContent"))
                [] outcome = "isError" -> Fail(ERR_MCP_IS_ERROR)
                [] outcome = "throw" -> Fail(ERR_MCP_CALL_FAILED)
                [] outcome \in { "unlisted", "listFails" } -> Fail(ERR_MCP_NOT_FOUND)),
       d, NoProc)

(***************************************************************************)
(* The environment: the project the program is started in, and what the    *)
(* model and the callers may ask for.                                      *)
(***************************************************************************)
WorkingDirectory == "/w/pq"

Projects ==
  { DEFAULT_PROJECT_CONFIG,
    [ allow_commands    |-> << "ls", "rm -rf /", "npm*", "rm -r*" >>,
      allow_write_paths |-> << "/w/pq/d", "src" >>,
      deny_paths        |-> << "node_modules", ".git", ".env", ".env.local" >> ],
    [ allow_commands    |-> << "*" >>,
      allow_write_paths |-> << >>,
      deny_paths        |-> << "node_modules", ".git", ".env", ".env.local" >> ] }

AppConfigs ==
  { createAppConfig(WorkingDirectory, a, p) : a \in BOOLEAN, p \in Projects }

\* every path a call of the vocabulary resolves to, with its ancestors
DiskPaths ==
  { "/", "/w", "/w/pq", "/w/pq/a.txt", "/w/pq/d", "/w/pq/d/f", "/w/pq/d/.env",
    "/w/pq/n", "/w/pq/n/b.txt", "/w/pq/gone" }

InitialDisk ==
  [ q \in DiskPaths |->
      CASE q \in { "/", "/w", "/w/pq", "/w/pq/d" } -> Dir
        [] q = "/w/pq/a.txt" -> File("A")
        [] q = "/w/pq/d/f" -> File("F")
        [] q = "/w/pq/d/.env" -> File("K")
        [] OTHER -> Absent ]

PathCall(name, path) == ToolCall(name, [NoArgs EXCEPT !.path = path])
WriteCall(name, path, content) ==
  ToolCall(name, [NoArgs EXCEPT !.path = path, !.content = content])
DeleteCall(path, recursive) ==
  ToolCall("delete_file", [NoArgs EXCEPT !.path = path, !.recursive = recursive])
CommandCall(command) == ToolCall("run_command", [NoArgs EXCEPT !.command = command])
QueryCall(query) == ToolCall("search_codebase", [NoArgs EXCEPT !.query = query])

Commands == { "ls", "npm t", "rm -rf /", "rm -r x", "sudo ls", "", " ", Undefined }

GateCalls ==
  { DeleteCall(q, FALSE) : q \in { "a.txt", "d", "d/f", "d/.env", "n/b.txt", "..", Undefined } }
  \cup { DeleteCall(q, TRUE) : q \in { "d", ".", "/" } }
  \cup { WriteCall("write_file", q, "x") : q \in { "a.txt", "d/f", "d/.env", "n/b.txt", "d" } }
  \cup { PathCall("write_file", "a.txt") }
  \cup { WriteCall("append_file", q, "y") : q \in { "a.txt", "d/.env", "n/b.txt" } }
  \cup { CommandCall(c) : c \in Commands }
  \cup { PathCall("read_file", q) : q \in { "a.txt", "gone" } }
  \cup { PathCall("list_files", q) : q \in { Undefined, "a.txt" } }
  \cup { QueryCall(q) : q \in { "x", Undefined } }
  \cup { ToolCall(n, NoArgs) : n \in { "web_search", "nope" } }

\* the capability servers that initializeMCP connected, with the tools each lists
McpSetups ==
  { [servers |-> << >>, mcpEnabled |-> FALSE],
    [servers |-> << { "web_search", "read_file", "run_command", "delete_file" } >>,
     mcpEnabled |-> TRUE] }

\* the agents executeToolCall is exercised on
GateAgents == { "main", "review", "constructor", "delegating" }

\* the configuration of each of these agents: a preset's, or for "delegating" a
\* custom one that lists a builtin tool and a capability of a server
GateConfig(agent) ==
  IF agent = "delegating"
    THEN createCustomAgentConfig("delegating", "", << << "read_file", "web_search" >> >>)
    ELSE getAgentConfig(agent)

MaxInvocations == 2

MaxOutput == 1   \* chunks of output a subprocess writes

(***************************************************************************)
(* State                                                                   *)
(***************************************************************************)
VARIABLES
  appConfig,    \* AppConfig of this start of the program
  disk,         \* the file system
  mcp,          \* ToolManager: connected servers and mcpEnabled
  inv,          \* the tool invocation in progress or last finished
  proc,         \* the subprocess of run_command
  invocations,  \* tool invocations begun so far by direct callers
  mainAgent,    \* AgentManager.mainAgent: its AgentState
  subAgents,    \* AgentManager.subAgents: id -> AgentState
  run,          \* the locals of the Agent.run in progress
  llm,          \* the LLM client as seen from the run: calls made, last request
  out,          \* what AgentManager.handleInput last gave its caller
  turns,        \* handleInput calls so far
  dispatched,   \* the round's calls handed to executeToolCall so far, by index
  client        \* LLMClient: its config objects, the provider call in progress

vars ==
  << appConfig, disk, mcp, inv, proc, invocations, mainAgent, subAgents, run, llm, out, turns,
     dispatched, client >>

loopVars == << mainAgent, subAgents, run, llm, out, turns >>

Pending == inv.status \in { "confirm", "cmd", "mcp" }

(***************************************************************************)
(* agent/sub-agent.ts: parseAgentCommand. Its pattern is an at-sign, one   *)
(* or more word characters (the type), any white space, and the rest of    *)
(* the input up to its end (the message), with no flag.                    *)
(***************************************************************************)
WordChars == "abcdefghijklmnopqrstuvwxyzABCDEFGHIJKLMNOPQRSTUVWXYZ0123456789_"

IsWordChar(c) == Includes(WordChars, c)
IsLineTerminator(c) == c = "\n" \/ c = "\r"

\* the index after the longest run of word characters that starts at i
RECURSIVE SkipWord(_, _)
SkipWord(s, i) ==
  IF i <= Len(s) /\ IsWordChar(CharAt(s, i)) THEN SkipWord(s, i + 1) ELSE i

\* the index after the longest run of white space that starts at i
RECURSIVE SkipSpace(_, _)
SkipSpace(s, i) ==
  IF i <= Len(s) /\ (IsWs(CharAt(s, i)) \/ IsLineTerminator(CharAt(s, i)))
    THEN SkipSpace(s, i + 1) ELSE i

NoCommand == [matched |-> FALSE, type |-> "", message |-> ""]

\* input.match(...): \w+ and \s* are greedy, and giving characters back never helps
\* (.*) to reach the end of the input across a line terminator
parseAgentCommand(input) ==
  IF ~StartsWith(input, "@") THEN NoCommand
  ELSE LET wordEnd == SkipWord(input, 2)
           restFrom == SkipSpace(input, wordEnd)
           typeStr == SubSeq(input, 2, wordEnd - 1)
           message == SubSeq(input, restFrom, Len(input))
           type == ToLowerCase(typeStr)
       IN IF wordEnd = 2 THEN NoCommand
          ELSE IF \E n \in 1..Len(message) : IsLineTerminator(CharAt(message, n)) THEN NoCommand
          ELSE IF ~PresetFound(type) THEN NoCommand
          ELSE [matched |-> TRUE, type |-> type, message |-> Trim(message)]

(***************************************************************************)
(* agent/index.ts: Agent                                                   *)
(***************************************************************************)
\* new Agent(config, llmClient, appConfig), after the manager's setProjectContext
NewAgent(config, projectContext) ==
  [config |-> config, messages |-> << >>, isRunning |-> FALSE, projectContext |-> projectContext]

\* LLMResponse, as run reads it: response and tool_calls
LLMResponse(response, tool_calls) == [response |-> response, tool_calls |-> tool_calls]
NoResponse == LLMResponse("", << >>)

\* Message.content: a text, JSON.stringify(llmResponse), or the rendered tool results
TextContent(text) == [text |-> text, json |-> NoResponse, results |-> << >>]
JsonContent(llmResponse) == [text |-> "", json |-> llmResponse, results |-> << >>]
ResultsContent(entries) == [text |-> "", json |-> NoResponse, results |-> entries]

Message(role, name, content) == [role |-> role, name |-> name, content |-> content]

\* one entry of toolResultContent: `[name]` and the data, or the error after its marker
ResultEntry(name, result) ==
  [ name |-> name, isError |-> ~result.success,
    error |-> IF result.success THEN "" ELSE result.error,
    data |-> IF result.success THEN result.data ELSE NoData ]

toolResultContent(toolResults) ==
  [n \in 1..Len(toolResults) |-> ResultEntry(toolResults[n].name, toolResults[n].result)]

addMessage(st, message) == [st EXCEPT !.messages = Append(@, message)]

buildMessagesWithContext(st) ==
  IF ~Falsy(st.projectContext)
    THEN << Message("system", Undefined, TextContent(st.projectContext)) >> \o st.messages
    ELSE st.messages

\* const maxLoops = this.state.config.maxLoops || this.appConfig.maxToolLoops
EffectiveMaxLoops(agentConfig, config) ==
  IF Has(agentConfig, "maxLoops") /\ agentConfig.maxLoops # 0
    THEN agentConfig.maxLoops
    ELSE config.maxToolLoops

\* a plausible slip: the bound is inclusive
LoopCondition_inclusive(loopCount, maxLoops) == loopCount <= maxLoops

\* while (loopCount < maxLoops)
LoopCondition(loopCount, maxLoops) == loopCount < maxLoops

\* for (const toolCall of llmResponse.tool_calls): the index after k, 0 when exhausted
forOfNext(k, tool_calls, result) == IF k < Len(tool_calls) THEN k + 1 ELSE 0

\* if (loopCount >= maxLoops) printWarning(...)
LoopLimitWarning(loopCount, maxLoops) == loopCount >= maxLoops

IdleRun ==
  [ pc |-> "idle", who |-> 0, maxLoops |-> 0, loopCount |-> 0, finalResponse |-> "",
    llmResponse |-> NoResponse, k |-> 0, toolResults |-> << >>, rich |-> 0 ]

NoOutcome == [kind |-> "none", value |-> "", warned |-> FALSE, messages |-> << >>]

IdleLLM == [calls |-> 0, failed |-> FALSE, request |-> << >>]

\* the agent a run belongs to: 0 is the main agent, otherwise the sub-agent's id
AgentOf(who) == IF who = 0 THEN mainAgent ELSE subAgents[who]

\* a plausible slip: a sub-agent writes its messages into the main agent's history
PutAgent_sharedHistory(who, st, remove) ==
  /\ mainAgent' = IF who = 0 THEN st ELSE [mainAgent EXCEPT !.messages = st.messages]
  /\ subAgents' = IF who = 0 THEN subAgents
                  ELSE [ id \in (IF remove THEN DOMAIN subAgents \ { who }
                                  ELSE DOMAIN subAgents \cup { who }) |->
                           IF id = who THEN st ELSE subAgents[id] ]

\* the running agent's state becomes st; handleInput's finally removes a sub-agent
PutAgent(who, st, remove) ==
  IF who = 0 THEN mainAgent' = st /\ UNCHANGED subAgents
  ELSE /\ UNCHANGED mainAgent
       /\ subAgents' = [ id \in (IF remove THEN DOMAIN subAgents \ { who }
                                 ELSE DOMAIN subAgents \cup { who }) |->
                           IF id = who THEN st ELSE subAgents[id] ]

\* a plausible slip: isRunning is reset in a catch only, not on return
RunReturn_noReset(st, r) ==
  /\ PutAgent(r.who, st, TRUE)
  /\ run' = [r EXCEPT !.pc = "idle"]
  /\ out' = [ kind |-> "returned", value |-> r.finalResponse,
              warned |-> LoopLimitWarning(r.loopCount, r.maxLoops), messages |-> st.messages ]

\* return finalResponse, through finally { isRunning = false }
RunReturn(st, r) ==
  /\ PutAgent(r.who, [st EXCEPT !.isRunning = FALSE], TRUE)
  /\ run' = [r EXCEPT !.pc = "idle"]
  /\ out' = [ kind |-> "returned", value |-> r.finalResponse,
              warned |-> LoopLimitWarning(r.loopCount, r.maxLoops), messages |-> st.messages ]

\* a plausible slip: the sub-agent is removed after the await, not in a finally
RunThrow_noFinally(st, r) ==
  /\ PutAgent(r.who, [st EXCEPT !.isRunning = FALSE], FALSE)
  /\ run' = [r EXCEPT !.pc = "idle"]
  /\ out' = [kind |-> "threw", value |-> "", warned |-> FALSE, messages |-> st.messages]

\* an exception leaves run, through finally { isRunning = false }
RunThrow(st, r) ==
  /\ PutAgent(r.who, [st EXCEPT !.isRunning = FALSE], TRUE)
  /\ run' = [r EXCEPT !.pc = "idle"]
  /\ out' = [kind |-> "threw", value |-> "", warned |-> FALSE, messages |-> st.messages]

\* the head of the while loop: the next model call, or the statements after the loop
LoopHead(st, r, l) ==
  IF LoopCondition(r.loopCount, r.maxLoops)
    THEN /\ PutAgent(r.who, st, FALSE)
         /\ run' = [r EXCEPT !.pc = "llm", !.loopCount = @ + 1]
         /\ llm' = [l EXCEPT !.calls = @ + 1, !.request = buildMessagesWithContext(st)]
         /\ out' = NoOutcome
    ELSE RunReturn(st, r) /\ llm' = l

\* a plausible slip: the failed model call is tried again
RunAbort_retry(st, r, l) == LoopHead(st, [r EXCEPT !.loopCount = @ - 1], [l EXCEPT !.failed = TRUE])

\* catch (error) { spinner.stop(); throw error; }
RunAbort(st, r, l) == RunThrow(st, r) /\ llm' = [l EXCEPT !.failed = TRUE]

\* what run does with the outcome n of this.executeToolCall(toolCall)
RunCollect(n) ==
  LET st == AgentOf(run.who)
      calls == run.llmResponse.tool_calls
      r1 == [run EXCEPT !.toolResults = Append(@, [name |-> calls[run.k].name, result |-> n.result])]
      next == forOfNext(run.k, calls, n.result)
  IN IF n.status = "threw" THEN RunThrow(st, run) /\ UNCHANGED llm
     ELSE IF next # 0
       THEN run' = [r1 EXCEPT !.k = next] /\ UNCHANGED << mainAgent, subAgents, llm, out >>
     ELSE LET st2 == addMessage(st, Message("tool", "tool_results",
                                            ResultsContent(toolResultContent(r1.toolResults))))
          IN LoopHead(st2, [r1 EXCEPT !.k = 0, !.finalResponse = run.llmResponse.response], llm)

(***************************************************************************)
(* The model's answers and the user's inputs                               *)
(***************************************************************************)
MaxCalls == 2        \* tool calls in one answer of the model
MaxRichRounds == 1   \* answers per session drawn from the whole vocabulary (in first rounds)
MaxTurns == 2        \* inputs per session
MaxHistory == 2      \* a further input is given only to a main history this short

\* the task a sub-agent is given when the command carries no message (the text of
\* the source, in English)
DEFAULT_TASK == "start working"

Inputs == { "fix", "@review go", "@test", "@constructor x", "@deploy x" }

ResponseTexts == { "", "done" }

ProbeCall == ToolCall("nope", NoArgs)

LoopCalls ==
  { ProbeCall, PathCall("read_file", "a.txt"), WriteCall("write_file", "a.txt", "x"),
    DeleteCall("a.txt", FALSE), CommandCall("ls") }

\* answers the model may give in any round
FreeResponses ==
  { LLMResponse("", << ProbeCall >>) } \cup { LLMResponse(t, << >>) : t \in ResponseTexts }

RichResponses ==
  { LLMResponse("", cs) : cs \in UNION { [1..n -> LoopCalls] : n \in 1..MaxCalls } }
  \ FreeResponses

\* answers the model may also give in the last round the cap allows: a text and a
\* call of a registered tool that needs no confirmation
CapResponses == { LLMResponse(t, << PathCall("read_file", "a.txt") >>) : t \in ResponseTexts }

ProjectContexts == { Undefined, "doc" }

ExitCodes == { 0, 1 }

(***************************************************************************)
(* llm/system-prompt.ts and the provider adapters: the canonical messages  *)
(* of a call are turned into the wire request of the provider's family.    *)
(***************************************************************************)
\* buildSystemPrompt(): one fixed text
buildSystemPrompt == "You are Ghostwriter"

\* the message callAnthropic puts first when the wire list does not start with the user
PLACEHOLDER_GREETING == "hello, please get ready to help me"

\* msg.content is the empty string: never for an assistant message, whose content
\* is JSON.stringify(llmResponse)
EmptyContent(msg) == msg.role # "assistant" /\ msg.content = TextContent("")

\* the tool_calls of a canonical message, when it has any
MessageToolCalls(msg) == IF Has(msg, "tool_calls") THEN msg.tool_calls ELSE << >>

\* the content of an Anthropic wire message: a string, or an array of blocks
WireString(content) == [isArray |-> FALSE, string |-> content, blocks |-> << >>]
WireBlocks(blocks) == [isArray |-> TRUE, string |-> TextContent(""), blocks |-> blocks]

TextBlock(content) == [type |-> "text", text |-> content]
ToolUseBlock(tc) == [type |-> "tool_use", name |-> tc.name, input |-> tc.arguments]
ToolResultBlock(msg) ==
  [ type |-> "tool_result",
    tool_use_id |-> IF Has(msg, "tool_call_id") THEN msg.tool_call_id ELSE "",
    content |-> msg.content ]

\* the blocks of an assistant message: its text when not empty, then its tool calls
AssistantBlocks(msg) ==
  (IF EmptyContent(msg) THEN << >> ELSE << TextBlock(msg.content) >>)
    \o [k \in 1..Len(MessageToolCalls(msg)) |-> ToolUseBlock(MessageToolCalls(msg)[k])]

\* a tool result joins the last wire message when that is a user message
MergeToolResult(last, block) ==
  [ role |-> "user",
    content |-> IF last.content.isArray
                  THEN WireBlocks(Append(last.content.blocks, block))
                  ELSE WireBlocks(<< TextBlock(last.content.string), block >>) ]

\* one turn of the for loop of convertMessages (Anthropic) on msg
anthropic_convertOne(result, msg) ==
  CASE msg.role = "system" -> result
    [] msg.role = "user" -> Append(result, [role |-> "user", content |-> WireString(msg.content)])
    [] msg.role = "assistant" ->
         IF Len(AssistantBlocks(msg)) > 0
           THEN Append(result, [role |-> "assistant", content |-> WireBlocks(AssistantBlocks(msg))])
           ELSE result
    [] msg.role = "tool" ->
         IF Len(result) > 0 /\ result[Len(result)].role = "user"
           THEN [result EXCEPT ![Len(result)] = MergeToolResult(@, ToolResultBlock(msg))]
           ELSE Append(result, [role |-> "user", content |-> WireBlocks(<< ToolResultBlock(msg) >>)])
    [] OTHER -> result

RECURSIVE anthropic_convertFrom(_, _, _)
anthropic_convertFrom(messages, n, result) ==
  IF n > Len(messages) THEN result
  ELSE anthropic_convertFrom(messages, n + 1, anthropic_convertOne(result, messages[n]))

\* convertMessages (Anthropic)
anthropic_convertMessages(messages) ==
  LET Led(result) ==
        IF Len(result) = 0 \/ result[1].role # "user"
          THEN << [role |-> "user", content |-> WireString(TextContent(PLACEHOLDER_GREETING))] >>
                 \o result
          ELSE result
  IN Led(anthropic_convertFrom(messages, 1, << >>))

\* systemMessages.map(m => m.content).join('\n\n'), each preceded by '\n\n'
RECURSIVE JoinedSystem(_, _)
JoinedSystem(messages, n) ==
  IF n > Len(messages) THEN ""
  ELSE IF messages[n].role = "system"
    THEN "\n\n" \o messages[n].content.text \o JoinedSystem(messages, n + 1)
    ELSE JoinedSystem(messages, n + 1)

\* callAnthropic: the request body, system and messages
anthropic_request(messages) ==
  [ system   |-> buildSystemPrompt \o JoinedSystem(messages, 1),
    messages |-> anthropic_convertMessages(messages) ]

\* convertMessages (OpenAI, and the same code in Kimi) on one message
openai_convertOne(msg) ==
  CASE msg.role = "system" -> [role |-> "system", content |-> msg.content]
    [] msg.role = "user" -> [role |-> "user", content |-> msg.content]
    [] msg.role = "assistant" ->
         IF Len(MessageToolCalls(msg)) > 0
           THEN [ role |-> "assistant",
                  content |-> IF EmptyContent(msg) THEN Undefined ELSE msg.content,
                  tool_calls |-> msg.tool_calls ]
           ELSE [ role |-> "assistant",
                  content |-> IF EmptyContent(msg) THEN Undefined ELSE msg.content ]
    [] msg.role = "tool" ->
         [ role |-> "tool",
           tool_call_id |-> IF Has(msg, "tool_call_id") THEN msg.tool_call_id ELSE "",
           content |-> msg.content ]

\* convertMessages (OpenAI): the built-in prompt first, then every message in turn
openai_convertMessages(messages) ==
  << [role |-> "system", content |-> TextContent(buildSystemPrompt)] >>
    \o [n \in 1..Len(messages) |-> openai_convertOne(messages[n])]

\* convertMessages (Ollama) on one message
ollama_convertOne(msg) ==
  CASE msg.role = "system" -> [role |-> "system", content |-> msg.content]
    [] msg.role = "user" -> [role |-> "user", content |-> msg.content]
    [] msg.role = "assistant" ->
         IF Len(MessageToolCalls(msg)) > 0
           THEN [role |-> "assistant", content |-> msg.content, tool_calls |-> msg.tool_calls]
           ELSE [role |-> "assistant", content |-> msg.content]
    [] msg.role = "tool" -> [role |-> "tool", content |-> msg.content]

\* convertMessages (Ollama)
ollama_convertMessages(messages) ==
  << [role |-> "system", content |-> TextContent(buildSystemPrompt)] >>
    \o [n \in 1..Len(messages) |-> ollama_convertOne(messages[n])]

(***************************************************************************)
(* JSON.parse on the argument texts of the vocabulary: the empty object,   *)
(* an object of one string member, and anything else a SyntaxError.        *)
(***************************************************************************)
\* the first position at or after i where sub occurs in s, 0 when there is none
RECURSIVE IndexFrom(_, _, _)
IndexFrom(s, sub, i) ==
  IF i + Len(sub) - 1 > Len(s) THEN 0
  ELSE IF SubSeq(s, i, i + Len(sub) - 1) = sub THEN i
  ELSE IndexFrom(s, sub, i + 1)

SyntaxError == [ok |-> FALSE, value |-> NoArgs]

\* the object whose one member is key: value
ObjectOf(key, value) ==
  IF key \in DOMAIN NoArgs THEN [NoArgs EXCEPT ![key] = value] ELSE NoArgs

JSON_parse(text) ==
  IF text = "{}" THEN [ok |-> TRUE, value |-> NoArgs]
  ELSE IF ~(StartsWith(text, "{\"") /\ EndsWith(text, "\"}")) THEN SyntaxError
  ELSE LET Member(colon) ==
             IF colon = 0 \/ colon + 3 > Len(text) - 1 THEN SyntaxError
             ELSE IF Includes(SubSeq(text, colon + 3, Len(text) - 2), "\"") THEN SyntaxError
             ELSE [ ok |-> TRUE,
                    value |-> ObjectOf(SubSeq(text, 3, colon - 1),
                                       SubSeq(text, colon + 3, Len(text) - 2)) ]
       IN Member(IndexFrom(text, "\":\"", 3))

(***************************************************************************)
(* llm/openai.ts callOpenAI and llm/kimi.ts callKimi: the parsed response  *)
(***************************************************************************)
\* the wire tool call: id, function.name, function.arguments (a text)
WireToolCall(id, name, arguments) == [id |-> id, name |-> name, arguments |-> arguments]

\* data.choices[0]: message.content, message.tool_calls, finish_reason
WireResponse(content, tool_calls, finish_reason) ==
  [content |-> content, tool_calls |-> tool_calls, finish_reason |-> finish_reason]

NativeToolCall(id, name, arguments) == [id |-> id, name |-> name, arguments |-> arguments]

\* for (const tc of message.tool_calls) try { toolCalls.push(...) } catch { }
RECURSIVE openai_parseToolCalls(_, _, _)
openai_parseToolCalls(tool_calls, n, toolCalls) ==
  IF n > Len(tool_calls) THEN toolCalls
  ELSE LET Tried(tc, parsed) ==
             IF parsed.ok
               THEN Append(toolCalls, NativeToolCall(tc.id, tc.name, parsed.value))
               ELSE toolCalls
       IN openai_parseToolCalls(tool_calls, n + 1,
                                Tried(tool_calls[n], JSON_parse(tool_calls[n].arguments)))

\* the stop reason, from choice.finish_reason
openai_stopReason(finish_reason) ==
  IF finish_reason = "tool_calls" THEN "tool_use"
  ELSE IF finish_reason = "length" THEN "max_tokens"
  ELSE "end_turn"

\* a plausible slip: no try around JSON.parse, so one bad argument text rejects the call
openai_parseResponse_uncaught(data) ==
  IF \E n \in 1..Len(data.tool_calls) : ~JSON_parse(data.tool_calls[n].arguments).ok
    THEN [ threw |-> TRUE, content |-> "", tool_calls |-> << >>, stop_reason |-> "" ]
    ELSE [ threw       |-> FALSE,
           content     |-> IF Falsy(data.content) THEN "" ELSE data.content,
           tool_calls  |-> openai_parseToolCalls(data.tool_calls, 1, << >>),
           stop_reason |-> openai_stopReason(data.finish_reason) ]

\* what callOpenAI returns for the response body data
openai_parseResponse(data) ==
  [ threw       |-> FALSE,
    content     |-> IF Falsy(data.content) THEN "" ELSE data.content,
    tool_calls  |-> openai_parseToolCalls(data.tool_calls, 1, << >>),
    stop_reason |-> openai_stopReason(data.finish_reason) ]

(***************************************************************************)
(* llm/index.ts: LLMClient. Configuration objects live in a heap, so that  *)
(* two holders of one object see each other's assignments.                 *)
(***************************************************************************)
Providers == { "anthropic", "openai", "grok", "ollama", "kimi" }
Models == { "m1", "m2" }

LLMConfig(provider, model) == [provider |-> provider, model |-> model]

NoProviderCall == [active |-> FALSE, provider |-> "", config |-> 0, request |-> << >>]
NoParsed == [threw |-> FALSE, content |-> "", tool_calls |-> << >>, stop_reason |-> ""]
CallThrew == [NoParsed EXCEPT !.threw = TRUE]

\* createLLMClient(config.llm): new LLMClient(config) keeps the object it is given,
\* the llm section of the application config, the first object of the heap
createLLMClient(llmConfig) ==
  [ heap    |-> << llmConfig >>,
    config  |-> Len(<< llmConfig >>),
    handed  |-> { },
    call    |-> NoProviderCall,
    calls   |-> 0,
    data    |-> << >>,
    parsed  |-> NoParsed ]

\* { ...this.config, ...updates }
Spread(config, updates) ==
  [ key \in DOMAIN config \cup DOMAIN updates |->
      IF key \in DOMAIN updates THEN updates[key] ELSE config[key] ]

\* updateConfig(updates): this.config = { ...this.config, ...updates }
LLMClient_updateConfig(c, updates) ==
  [c EXCEPT !.heap = Append(@, Spread(c.heap[c.config], updates)),
            !.config = Len(c.heap) + 1]

\* switchProvider(provider, model?): assignments to the fields of this.config
LLMClient_switchProvider(c, provider, model) ==
  [c EXCEPT !.heap[c.config] =
      [@ EXCEPT !.provider = provider, !.model = IF Falsy(model) THEN @ ELSE model]]

\* the request the adapter of the provider builds from the messages
ProviderRequest(provider, messages) ==
  CASE provider = "anthropic" -> anthropic_request(messages)
    [] provider \in { "openai", "grok", "kimi" } ->
         [messages |-> openai_convertMessages(messages)]
    [] provider = "ollama" -> [messages |-> ollama_convertMessages(messages)]

\* call(messages): this.config is handed to the adapter of its provider
LLMClient_call(c, messages) ==
  [c EXCEPT !.call = [ active   |-> TRUE,
                       provider |-> c.heap[c.config].provider,
                       config   |-> c.config,
                       request  |-> ProviderRequest(c.heap[c.config].provider, messages) ],
            !.handed = @ \cup { c.config },
            !.calls = @ + 1,
            !.data = << >>,
            !.parsed = NoParsed]

\* the response body arrives and is parsed
LLMClient_resolve(c, data) ==
  [c EXCEPT !.call = [@ EXCEPT !.active = FALSE],
            !.data = << data >>,
            !.parsed = openai_parseResponse(data)]

\* fetch fails or the status is not ok: the call throws
LLMClient_reject(c) ==
  [c EXCEPT !.call = [@ EXCEPT !.active = FALSE], !.parsed = CallThrew]

(***************************************************************************)
(* Initial states                                                          *)
(***************************************************************************)
InitCommon ==
  /\ disk = InitialDisk
  /\ inv = IdleInvocation
  /\ proc = NoProc
  /\ invocations = 0
  /\ \E c \in ProjectContexts : mainAgent = NewAgent(getAgentConfig("main"), c)
  /\ subAgents = << >>
  /\ run = IdleRun
  /\ llm = IdleLLM
  /\ out = NoOutcome
  /\ turns = 0
  /\ dispatched = << >>
  /\ client = createLLMClient(LLMConfig("kimi", "m1"))

Init ==
  /\ appConfig \in { createAppConfig(WorkingDirectory, a, DEFAULT_PROJECT_CONFIG) : a \in BOOLEAN }
  /\ mcp \in { m \in McpSetups : m.mcpEnabled }
  /\ InitCommon

DispatchInit ==
  /\ appConfig \in AppConfigs
  /\ mcp \in McpSetups
  /\ InitCommon

(***************************************************************************)
(* Steps of a tool invocation                                              *)
(***************************************************************************)
\* the invocation moves to n; when it belongs to a run and is over, run goes on
Settle(n) ==
  /\ inv' = n.inv
  /\ disk' = n.disk
  /\ proc' = n.proc
  /\ IF n.inv.via = "run" /\ n.inv.status \in { "done", "threw" }
       THEN RunCollect(n.inv)
       ELSE UNCHANGED << mainAgent, subAgents, run, llm, out >>
  /\ UNCHANGED << appConfig, mcp, turns >>

\* the user answers confirm()
ConfirmAnswer(yes) ==
  /\ inv.status = "confirm"
  /\ Settle(InvocationAnswer(inv, appConfig, disk, yes))
  /\ UNCHANGED << invocations, dispatched, client >>

\* the subprocess closes
ProcClose(code) ==
  /\ inv.status = "cmd"
  /\ Settle(InvocationClose(inv, disk, proc, code))
  /\ UNCHANGED << invocations, dispatched, client >>

\* the timer of executeCommand fires: killed = true, SIGKILL
ProcTimeout ==
  /\ inv.status = "cmd"
  /\ ~proc.killed
  /\ proc' = [proc EXCEPT !.killed = TRUE]
  /\ UNCHANGED << appConfig, disk, mcp, inv, invocations, mainAgent, subAgents, run, llm, out,
                  turns, dispatched, client >>

\* proc.stdout 'data': a chunk of output is collected
ProcData ==
  /\ inv.status = "cmd"
  /\ Len(proc.stdout) < MaxOutput
  /\ proc' = [proc EXCEPT !.stdout = @ \o "o"]
  /\ UNCHANGED << appConfig, disk, mcp, inv, invocations, mainAgent, subAgents, run, llm, out,
                  turns, dispatched, client >>

\* the subprocess cannot be started
ProcError ==
  /\ inv.status = "cmd"
  /\ ~proc.killed
  /\ Settle(InvocationError(inv, disk))
  /\ UNCHANGED << invocations, dispatched, client >>

\* the capability server answers
McpReturn(outcome) ==
  /\ inv.status = "mcp"
  /\ Settle(InvocationMcp(inv, disk, mcp.servers, outcome))
  /\ UNCHANGED << invocations, dispatched, client >>

(***************************************************************************)
(* AgentManager.handleInput and Agent.run                                  *)
(***************************************************************************)
\* mainLoop awaits handleInput before it reads the next input
InputAwaited == run.pc = "idle" /\ ~Pending

HandleInput(input) ==
  /\ InputAwaited
  /\ turns < MaxTurns
  /\ Len(mainAgent.messages) <= MaxHistory
  /\ LET Run(agentCommand, agent) ==
           LET who == IF agentCommand.matched THEN turns + 1 ELSE 0
               userMessage == IF ~agentCommand.matched THEN input
                              ELSE IF Falsy(agentCommand.message) THEN DEFAULT_TASK
                              ELSE agentCommand.message
           IN LoopHead(addMessage([agent EXCEPT !.isRunning = TRUE],
                                  Message("user", Undefined, TextContent(userMessage))),
                       [IdleRun EXCEPT !.who = who, !.rich = run.rich,
                                       !.maxLoops = EffectiveMaxLoops(agent.config, appConfig)],
                       IdleLLM)
         Handle(agentCommand) ==
           Run(agentCommand,
               IF agentCommand.matched
                 THEN NewAgent(getAgentConfig(agentCommand.type), mainAgent.projectContext)
                 ELSE mainAgent)
     IN Handle(parseAgentCommand(input))
  /\ turns' = turns + 1
  /\ inv' = IdleInvocation
  /\ dispatched' = << >>
  /\ UNCHANGED client
  /\ UNCHANGED << appConfig, disk, mcp, proc, invocations >>

\* this.llmClient.call(messagesWithContext) resolves
LLMReturn(llmResponse) ==
  /\ run.pc = "llm"
  /\ \/ llmResponse \in FreeResponses
     \/ llmResponse \in RichResponses /\ run.rich < MaxRichRounds
                                      /\ run.loopCount <= MaxRichRounds
     \/ llmResponse \in CapResponses /\ run.loopCount = run.maxLoops
  /\ LET st == addMessage(AgentOf(run.who),
                          Message("assistant", Undefined, JsonContent(llmResponse)))
         r == [run EXCEPT !.llmResponse = llmResponse,
                          !.rich = IF llmResponse \in RichResponses /\ run.loopCount <= MaxRichRounds
                                     THEN @ + 1 ELSE @]
     IN IF Len(llmResponse.tool_calls) = 0
          THEN RunReturn(st, [r EXCEPT !.finalResponse = llmResponse.response])
               /\ UNCHANGED llm
          ELSE /\ PutAgent(run.who, st, FALSE)
               /\ run' = [r EXCEPT !.pc = "tools", !.k = 1, !.toolResults = << >>]
               /\ UNCHANGED << llm, out >>
  /\ dispatched' = << >>
  /\ UNCHANGED client
  /\ UNCHANGED << appConfig, disk, mcp, inv, proc, invocations, turns >>

\* this.llmClient.call(messagesWithContext) rejects
LLMThrow ==
  /\ run.pc = "llm"
  /\ RunAbort(AgentOf(run.who), run, llm)
  /\ UNCHANGED << appConfig, disk, mcp, inv, proc, invocations, turns, dispatched, client >>

\* the body of the for loop: await this.executeToolCall(toolCall)
ToolBegin ==
  /\ run.pc = "tools"
  /\ ~Pending
  /\ LET agentConfig == AgentOf(run.who).config
         toolCall == run.llmResponse.tool_calls[run.k]
     IN Settle(Agent_executeToolCall(NewInvocation("run", agentConfig.type, toolCall),
                                     agentConfig, appConfig, disk))
  /\ dispatched' = Append(dispatched, run.k)
  /\ UNCHANGED client
  /\ UNCHANGED invocations

Next ==
  \/ \E input \in Inputs : HandleInput(input)
  \/ \E llmResponse \in FreeResponses \cup RichResponses \cup CapResponses :
       LLMReturn(llmResponse)
  \/ LLMThrow
  \/ ToolBegin
  \/ \E yes \in BOOLEAN : ConfirmAnswer(yes)
  \/ \E code \in ExitCodes : ProcClose(code)
  \/ ProcTimeout
  \/ ProcData
  \/ ProcError

Spec == Init /\ [][Next]_vars

(***************************************************************************)
(* The dispatchers called directly                                         *)
(***************************************************************************)
DirectExecuteToolCall(type, toolCall) ==
  /\ ~Pending
  /\ invocations < MaxInvocations
  /\ Settle(Agent_executeToolCall(NewInvocation("direct", type, toolCall),
                                  GateConfig(type), appConfig, disk))
  /\ invocations' = invocations + 1
  /\ UNCHANGED << dispatched, client >>

ManagerExecuteTool(toolCall) ==
  /\ ~Pending
  /\ invocations < MaxInvocations
  /\ Settle(ToolManager_executeTool(NewInvocation("manager", "none", toolCall),
                                    appConfig, disk, mcp.mcpEnabled))
  /\ invocations' = invocations + 1
  /\ UNCHANGED << dispatched, client >>

DispatchNext ==
  \/ \E type \in GateAgents, toolCall \in GateCalls : DirectExecuteToolCall(type, toolCall)
  \/ \E toolCall \in GateCalls : ManagerExecuteTool(toolCall)
  \/ \E yes \in BOOLEAN : ConfirmAnswer(yes)
  \/ \E code \in ExitCodes : ProcClose(code)
  \/ ProcTimeout
  \/ ProcData
  \/ ProcError
  \/ \E outcome \in McpOutcomes : McpReturn(outcome)

DispatchSpec == DispatchInit /\ [][DispatchNext]_vars

(***************************************************************************)
(* The LLM client on its own: calls with the history of the main agent,    *)
(* responses of the OpenAI-compatible providers, and the two ways the      *)
(* session changes the configuration. Responses of the other providers are *)
(* not parsed here: their calls end by a failure of the request.           *)
(***************************************************************************)
MaxClientCalls == 1   \* provider calls per behaviour
MaxObjects == 2       \* configuration objects per behaviour
MaxWireCalls == 2     \* tool calls per wire response

UserMessage == Message("user", Undefined, TextContent("fix"))
AssistantMessage(llmResponse) == Message("assistant", Undefined, JsonContent(llmResponse))
ToolMessage ==
  Message("tool", "tool_results",
          ResultsContent(toolResultContent(<< [name |-> "read_file",
                                               result |-> Fail(ERR_NOT_EXIST)] >>)))

\* histories of the main agent: empty, one input, a finished turn, a turn cut at the cap
ClientHistories ==
  { << >>,
    << UserMessage >>,
    << UserMessage, AssistantMessage(LLMResponse("done", << >>)) >>,
    << UserMessage,
       AssistantMessage(LLMResponse("", << PathCall("read_file", "gone") >>)),
       ToolMessage >> }

ArgumentTexts == { "{\"path\":\"a.txt\"}", "{\"path\":", "{\"path\":\"a\"b\"}" }

\* the tool calls of a wire response: call n has the id of its position
CallIds == << "call_1", "call_2" >>

WireCallLists ==
  UNION { { [n \in 1..k |-> WireToolCall(CallIds[n], "read_file", texts[n])] :
              texts \in [1..k -> ArgumentTexts] } : k \in 0..MaxWireCalls }

WireResponses ==
  { WireResponse(content, tool_calls, finish_reason) :
      content \in { Undefined, "done" },
      tool_calls \in WireCallLists,
      finish_reason \in { "stop", "tool_calls", "length" } }

ClientInit ==
  /\ appConfig = createAppConfig(WorkingDirectory, FALSE, DEFAULT_PROJECT_CONFIG)
  /\ mcp \in { m \in McpSetups : ~m.mcpEnabled }
  /\ disk = InitialDisk
  /\ inv = IdleInvocation
  /\ proc = NoProc
  /\ invocations = 0
  /\ \E c \in ProjectContexts, h \in ClientHistories :
       mainAgent = [NewAgent(getAgentConfig("main"), c) EXCEPT !.messages = h]
  /\ subAgents = << >>
  /\ run = IdleRun
  /\ llm = IdleLLM
  /\ out = NoOutcome
  /\ turns = 0
  /\ dispatched = << >>
  /\ \E provider \in Providers : client = createLLMClient(LLMConfig(provider, "m1"))

sessionVars ==
  << appConfig, disk, mcp, inv, proc, invocations, mainAgent, subAgents, run, llm, out, turns,
     dispatched >>

\* Agent.run: await this.llmClient.call(messagesWithContext)
ClientCall ==
  /\ ~client.call.active
  /\ client.calls < MaxClientCalls
  /\ client' = LLMClient_call(client, buildMessagesWithContext(mainAgent))
  /\ UNCHANGED sessionVars

\* an OpenAI-compatible provider answers with the body data
ClientResolve(data) ==
  /\ client.call.active
  /\ client.call.provider \in { "openai", "grok", "kimi" }
  /\ client' = LLMClient_resolve(client, data)
  /\ UNCHANGED sessionVars

\* the request fails
ClientReject ==
  /\ client.call.active
  /\ client' = LLMClient_reject(client)
  /\ UNCHANGED sessionVars

\* main.ts switchModel: llmClient.updateConfig({ model })
SwitchModel(model) ==
  /\ ~client.call.active
  /\ Len(client.heap) < MaxObjects
  /\ client' = LLMClient_updateConfig(client, [model |-> model])
  /\ UNCHANGED sessionVars

\* main.ts switchProvider: llmClient.switchProvider(selected)
SwitchProvider(provider, model) ==
  /\ ~client.call.active
  /\ client' = LLMClient_switchProvider(client, provider, model)
  /\ UNCHANGED sessionVars

ClientNext ==
  \/ ClientCall
  \/ \E data \in WireResponses : ClientResolve(data)
  \/ ClientReject
  \/ \E model \in Models : SwitchModel(model)
  \/ \E provider \in Providers, model \in { Undefined, "m2" } :
       SwitchProvider(provider, model)

ClientSpec == ClientInit /\ [][ClientNext]_vars

(***************************************************************************)
(* Properties of the safety gate and the dispatchers (DispatchSpec)        *)
(***************************************************************************)
InvCommand == inv.call.arguments.command
InvPath == inv.call.arguments.path

\* the tool's own execute was entered for the invocation
ExecuteEntered(i) == i.builtinExecs > 0

\* the command is given and matches one of DANGEROUS_PATTERNS
DangerousCommand(command) == command # Undefined /\ isDangerousCommand(command)

\* the command is given and matches allow_commands: equal to an entry, or with
\* the prefix that an entry ending in "*" gives
WhitelistedCommand(command, config) ==
  /\ command # Undefined
  /\ \E n \in 1..Len(config.project.allow_commands) :
       LET entry == config.project.allow_commands[n]
       IN \/ entry = command
          \/ EndsWith(entry, "*") /\ StartsWith(command, SubSeq(entry, 1, Len(entry) - 1))

C3_DangerousIgnoresWhitelist ==
  ( /\ inv.call.name = "run_command"
    /\ ExecuteEntered(inv)
    /\ DangerousCommand(InvCommand) )
  => /\ inv.risk = "high"
     /\ inv.prompted
     /\ inv.effect # "none" => inv.answer = "yes"

C3_Witness ==
  /\ inv.call.name = "run_command"
  /\ InvCommand = "rm -rf /"
  /\ WhitelistedCommand(InvCommand, appConfig)
  /\ appConfig.autoConfirm
  /\ inv.status = "confirm" /\ inv.risk = "high"

\* the resolved path of a write-class invocation is rejected by the path policy
PathRejected(i, config) ==
  /\ i.call.name \in { "write_file", "append_file", "delete_file" }
  /\ ExecuteEntered(i)
  /\ ~Falsy(i.call.arguments.path)
  /\ LET fullPath == PathResolve(config.workingDirectory, i.call.arguments.path)
         deny == config.project.deny_paths
         allow == config.project.allow_write_paths
     IN \/ \E n \in 1..Len(deny) : Includes(fullPath, deny[n])
        \/ Len(allow) > 0 /\ ~ \E n \in 1..Len(allow) : StartsWith(fullPath, allow[n])

\* C4: for write_file, append_file and delete_file, a resolved path that contains a
\* deny_paths entry is rejected even when it starts with an allow_write_paths entry,
\* and with a non-empty allow_write_paths a path starting with none of its entries is
\* rejected; the rejected invocation returns a failure, shows no prompt and leaves the
\* disk as it was.
C4_PathDecision ==
  [][ PathRejected(inv', appConfig)
      => /\ inv'.status = "done" /\ ~inv'.result.success
         /\ ~inv'.prompted
         /\ inv'.effect = "none"
         /\ disk' = disk ]_vars

C4_Witness ==
  /\ inv.call.name = "write_file"
  /\ InvPath = "d/.env"
  /\ \E n \in 1..Len(appConfig.project.allow_write_paths) :
       StartsWith(PathResolve(appConfig.workingDirectory, InvPath),
                  appConfig.project.allow_write_paths[n])
  /\ inv.status = "done" /\ inv.result = Fail(ERR_WRITE_DENIED)
  /\ disk = InitialDisk

\* a medium-risk invocation that is neither dangerous nor whitelisted
MediumPlain(i, config) ==
  /\ ExecuteEntered(i)
  /\ \/ i.call.name \in { "write_file", "append_file" }
     \/ /\ i.call.name = "run_command"
        /\ ~DangerousCommand(i.call.arguments.command)
        /\ ~WhitelistedCommand(i.call.arguments.command, config)

\* the arguments pass the tool's validation and the path policy
ArgumentsAccepted(i, config) ==
  IF i.call.name = "run_command"
    THEN ~Falsy(i.call.arguments.command) /\ Trim(i.call.arguments.command) # ""
    ELSE /\ ~Falsy(i.call.arguments.path)
         /\ i.call.arguments.content # Undefined
         /\ ~PathRejected(i, config)

\* C5: for a medium-risk invocation that is neither dangerous nor whitelisted
\* (write_file, append_file, run_command): with autoConfirm off the effect has
\* happened only after the prompt was answered yes; with autoConfirm on no prompt is
\* shown, nothing is cancelled, and the effect happens once the arguments are accepted.
C5_MediumRiskGate ==
  MediumPlain(inv, appConfig)
  => IF ~appConfig.autoConfirm
       THEN inv.effect # "none" => inv.prompted /\ inv.answer = "yes"
       ELSE /\ ~inv.prompted
            /\ inv.status = "done" => inv.result.error \notin { ERR_CANCELLED, ERR_CMD_CANCELLED }
            /\ ArgumentsAccepted(inv, appConfig) => inv.effect = inv.call.name

C5_Witness ==
  /\ ~appConfig.autoConfirm
  /\ inv.call.name = "run_command" /\ InvCommand = "ls"
  /\ ~WhitelistedCommand(InvCommand, appConfig)
  /\ inv.prompted /\ inv.answer = "yes" /\ inv.risk = "medium"
  /\ inv.status = "done" /\ inv.result.success

\* a run_command with a command that is whitelisted and not dangerous, autoConfirm on
WhitelistedPlain(i, config) ==
  /\ i.call.name = "run_command"
  /\ ExecuteEntered(i)
  /\ config.autoConfirm
  /\ WhitelistedCommand(i.call.arguments.command, config)
  /\ ~DangerousCommand(i.call.arguments.command)

NotAvailable(type, name) ==
  LET agentConfig == GateConfig(type)
  IN ~(Has(agentConfig, "availableTools") /\ ArrayIncludes(agentConfig.availableTools, name))

\* C7 as stated: Agent.executeToolCall on a tool name that is not in the agent's
\* availableTools returns the permission error and executes nothing, whether or not
\* the registry knows the name.
C7_AsStated ==
  ( /\ inv.via = "direct"
    /\ NotAvailable(inv.agent, inv.call.name) )
  => /\ inv.status = "done"
     /\ inv.result = Fail(ERR_NO_PERMISSION)
     /\ ~ExecuteEntered(inv) /\ inv.effect = "none"

\* C8: ToolManager.executeTool for a name that is a builtin tool and is also exposed
\* by a connected capability server enters the builtin once and never asks the
\* server, also when the builtin returns a failure.
C8_BuiltinWins ==
  ( /\ inv.via = "manager"
    /\ getTool(inv.call.name)
    /\ mcp.mcpEnabled /\ findToolServerHit(mcp.servers, inv.call.name) )
  => /\ inv.builtinExecs = 1
     /\ inv.mcpRequests = 0
     /\ inv.status # "mcp"

C8_Witness ==
  /\ inv.via = "manager"
  /\ inv.call.name = "read_file"
  /\ mcp.mcpEnabled /\ findToolServerHit(mcp.servers, inv.call.name)
  /\ inv.status = "done" /\ ~inv.result.success
  /\ inv.builtinExecs = 1 /\ inv.mcpRequests = 0

(***************************************************************************)
(* Properties of Agent.run (Spec)                                          *)
(***************************************************************************)
\* the effective cap of an agent: config.maxLoops if set, otherwise maxToolLoops
CapOf(agentConfig) ==
  IF Has(agentConfig, "maxLoops") THEN agentConfig.maxLoops ELSE maxToolLoops

Running == run.pc # "idle"

\* what a run is waiting for can always arrive: the model's answer or error, the
\* next dispatch of the round, the user's answer, the subprocess's close
RunCanStep ==
  \/ run.pc = "llm"
  \/ run.pc = "tools" /\ (~Pending \/ inv.status \in { "confirm", "cmd" })

\* how far the pending dispatch is from its result
InvStage ==
  IF ~Pending THEN 2 * MaxOutput + 3
  ELSE IF inv.status = "confirm" THEN 2 * MaxOutput + 2
  ELSE (IF ~proc.killed THEN MaxOutput + 1 ELSE 0) + (MaxOutput - Len(proc.stdout))

\* the rank of a running state: rounds the cap still allows, then the model call
\* before the dispatches of its round, then the calls left in the round, then the
\* stage of the pending dispatch
RunRank ==
  << run.maxLoops - run.loopCount,
     IF run.pc = "llm" THEN 1 ELSE 0,
     IF run.pc = "tools" THEN Len(run.llmResponse.tool_calls) - run.k ELSE 0,
     IF run.pc = "tools" THEN InvStage ELSE 0 >>

RECURSIVE LexLess(_, _)
LexLess(a, b) ==
  IF a = << >> THEN FALSE
  ELSE \/ Head(a) < Head(b)
       \/ Head(a) = Head(b) /\ LexLess(Tail(a), Tail(b))

\* C1: a run of an agent with effective cap N >= 1 makes at most N model calls and
\* always finishes (returns or throws), whatever the model answers and whatever the
\* tools return. Finishing is stated as: a run is never left without a step to
\* take, every step of a run either ends it (with a return or a throw) or strictly
\* lowers a rank of four natural numbers ordered lexicographically, so no run has
\* infinitely many steps.
C1_BoundedAndFinishes ==
  /\ [](Running => /\ run.maxLoops = CapOf(AgentOf(run.who).config)
                   /\ run.maxLoops >= 1
                   /\ RunCanStep
                   /\ \A n \in 1..4 : RunRank[n] >= 0)
  /\ [](llm.calls <= run.maxLoops /\ llm.calls = run.loopCount)
  /\ [][ Running => \/ ~Running' /\ out'.kind \in { "returned", "threw" }
                    \/ Running' /\ run'.who = run.who /\ LexLess(RunRank', RunRank) ]_vars

C1_Witness ==
  /\ ~Running
  /\ run.who = 0
  /\ run.maxLoops = maxToolLoops
  /\ llm.calls = maxToolLoops
  /\ out.kind = "returned"

\* the messages of the agent of the current run, after a step
MessagesAfter ==
  IF run'.pc = "idle" THEN out'.messages
  ELSE IF run.who = 0 THEN mainAgent'.messages
  ELSE subAgents'[run.who].messages

\* C9 as stated: within Agent.run no tool-level failure (unknown tool, permission
\* denied, declined confirmation, failure result, exception) makes run throw or stop
\* early: the failure is recorded as the call's error in the round's tool message,
\* the remaining calls of the round are still dispatched, and the loop goes on to
\* the next model call when the cap allows.
C9_AsStated ==
  [][ ( /\ run.pc = "tools"
        /\ inv'.via = "run"
        /\ \/ inv'.status = "threw"
           \/ inv'.status = "done" /\ ~inv'.result.success )
      => LET calls == run.llmResponse.tool_calls
             results == Append(run.toolResults,
                               [name |-> calls[run.k].name, result |-> inv'.result])
         IN /\ inv'.status = "done"
            /\ out'.kind # "threw"
            /\ IF run.k < Len(calls)
                 THEN /\ run'.pc = "tools" /\ run'.k = run.k + 1
                      /\ run'.toolResults = results
                 ELSE /\ Len(MessagesAfter) > 0
                      /\ LET last == MessagesAfter[Len(MessagesAfter)]
                         IN /\ last.role = "tool"
                            /\ last.content.results = toolResultContent(results)
                            /\ last.content.results[Len(results)].isError
                            /\ last.content.results[Len(results)].error = inv'.result.error
                      /\ IF run.loopCount < run.maxLoops
                           THEN /\ run'.pc = "llm"
                                /\ llm'.calls = llm.calls + 1
                                /\ llm'.request[Len(llm'.request)].role = "tool"
                           ELSE run'.pc = "idle" /\ out'.kind = "returned" ]_vars

\* C10: when the model call throws, the run makes no further model call and no tool
\* dispatch, the error reaches the caller, and the agent's history is every message
\* appended before the failing call (what that call was sent); a later run of the
\* main agent sends that history followed by the new user message.
C10_ProviderErrorAborts ==
  /\ [](llm.failed
          => /\ run.pc = "idle"
             /\ out.kind = "threw"
             /\ ~Pending
             /\ llm.calls = run.loopCount
             /\ llm.request = buildMessagesWithContext(
                                [mainAgent EXCEPT !.messages = out.messages])
             /\ run.who = 0 => mainAgent.messages = out.messages)
  /\ [][ llm.failed /\ run.who = 0 /\ run'.pc = "llm" /\ run'.who = 0
           => /\ Len(llm'.request) = Len(llm.request) + 1
              /\ SubSeq(llm'.request, 1, Len(llm.request)) = llm.request
              /\ llm'.request[Len(llm'.request)].role = "user" ]_vars

C10_Witness ==
  /\ llm.failed
  /\ out.kind = "threw"
  /\ run.who = 0
  /\ run.loopCount = 2
  /\ Len(mainAgent.messages) = 3
  /\ mainAgent.messages[3].role = "tool"

\* the indices of the first n calls of a round, in the order of the response
FirstCalls(n) == [m \in 1..n |-> m]

\* C11 as stated: in each round the tool calls of the response are dispatched
\* exactly once each, one at a time, in the order of the response: call k+1 starts
\* only after call k has produced its result, so at most one dispatched call (its
\* execution or its confirmation prompt) is without a result at any time, and a
\* round is left only when every call was dispatched and gave its result.
C11_AsStated ==
  /\ [](run.pc = "tools"
          => /\ dispatched = FirstCalls(Len(dispatched))
             /\ Len(dispatched) - Len(run.toolResults) = (IF Pending THEN 1 ELSE 0)
             /\ \A n \in 1..Len(run.toolResults) :
                  run.toolResults[n].name = run.llmResponse.tool_calls[n].name
             /\ Pending => /\ inv.via = "run"
                           /\ inv.call = run.llmResponse.tool_calls[Len(dispatched)])
  /\ [][ run.pc = "tools" /\ dispatched' # dispatched
           => /\ ~Pending
              /\ Len(run.toolResults) = Len(dispatched)
              /\ dispatched' = FirstCalls(Len(dispatched) + 1)
              /\ inv'.call = run.llmResponse.tool_calls[Len(dispatched) + 1] ]_vars
  /\ [][ run.pc = "tools" /\ run'.pc # "tools"
           => /\ dispatched' = FirstCalls(Len(run.llmResponse.tool_calls))
              /\ Len(run'.toolResults) = Len(run.llmResponse.tool_calls) ]_vars

\* the call's name and outcome as run records them after executeToolCall
Collected(results, calls, k, result) ==
  results = Append(run.toolResults, [name |-> calls[k].name, result |-> result])

\* C12 as stated: a round whose response has k >= 1 tool calls appends to the
\* history exactly one assistant message and then exactly one tool message; the
\* tool message holds exactly k entries, one per call in call order, each with the
\* call's name and its outcome (the result's data or its error); nothing else is
\* appended in the round.
C12_AsStated ==
  /\ [][ run.pc = "llm" /\ run'.pc = "tools"
           => /\ Len(run'.llmResponse.tool_calls) >= 1
              /\ MessagesAfter = Append(AgentOf(run.who).messages,
                                        Message("assistant", Undefined,
                                                JsonContent(run'.llmResponse))) ]_vars
  /\ [][ run.pc = "tools" /\ run'.pc = "tools"
           => /\ MessagesAfter = AgentOf(run.who).messages
              /\ run'.toolResults # run.toolResults
                   => Collected(run'.toolResults, run.llmResponse.tool_calls, run.k,
                                inv'.result) ]_vars
  /\ [][ run.pc = "tools" /\ run'.pc # "tools"
           => LET calls == run.llmResponse.tool_calls
                  before == AgentOf(run.who).messages
              IN /\ Len(MessagesAfter) = Len(before) + 1
                 /\ SubSeq(MessagesAfter, 1, Len(before)) = before
                 /\ before[Len(before)] = Message("assistant", Undefined,
                                                  JsonContent(run.llmResponse))
                 /\ LET last == MessagesAfter[Len(MessagesAfter)]
                    IN /\ last.role = "tool"
                       /\ Len(last.content.results) = Len(calls)
                       /\ Collected(run'.toolResults, calls, Len(calls), inv'.result)
                       /\ \A n \in 1..Len(calls) :
                            last.content.results[n]
                              = ResultEntry(calls[n].name, run'.toolResults[n].result) ]_vars

\* the round in progress is that of the N-th model response of the run, N the cap
CapRound == run.pc = "tools" /\ run.loopCount = run.maxLoops

\* C13 as stated: when the N-th model response of a run (N the cap) still contains
\* tool calls, the round is left only with every call executed and the tool message
\* appended, no further model call is made, the run returns (it does not throw) the
\* text of that last response, and the loop-limit signal is emitted.
C13_AsStated ==
  /\ [](CapRound => llm.calls = run.maxLoops)
  /\ [][ CapRound /\ run'.pc # "tools"
           => /\ run'.pc = "idle"
              /\ llm' = llm
              /\ dispatched' = FirstCalls(Len(run.llmResponse.tool_calls))
              /\ out'.kind = "returned"
              /\ out'.value = run.llmResponse.response
              /\ out'.warned
              /\ out'.messages
                   = Append(AgentOf(run.who).messages,
                            Message("tool", "tool_results",
                                    ResultsContent(toolResultContent(run'.toolResults))))
              /\ Len(run'.toolResults) = Len(run.llmResponse.tool_calls) ]_vars

\* the result of a tool whose confirmation was declined
Cancelled(result) == ~result.success /\ result.error \in { ERR_CANCELLED, ERR_CMD_CANCELLED }

\* the last message of a history
LastOf(messages) == messages[Len(messages)]

\* C14: while a confirmation is asked and when the user declines it, the tool has
\* no effect (no file changed, no subprocess started); the declined call returns a
\* failure marked as cancelled and nothing is thrown; the cancelled outcome is
\* collected as the call's entry, every cancelled entry of a round is in the tool
\* message the round appends, and when the cap allows, the next model call is sent
\* a message list ending with that tool message.
C14_DeclineIsObserved ==
  /\ [][ run.pc = "tools" /\ inv'.status = "confirm"
           => disk' = disk /\ proc' = NoProc /\ inv'.effect = "none" ]_vars
  /\ [][ run.pc = "tools" /\ inv.status = "confirm" /\ inv'.answer = "no"
           => /\ disk' = disk /\ proc' = NoProc /\ inv'.effect = "none"
              /\ inv'.status = "done"
              /\ Cancelled(inv'.result)
              /\ out'.kind # "threw"
              /\ Collected(run'.toolResults, run.llmResponse.tool_calls, run.k, inv'.result)
              /\ run.k < Len(run.llmResponse.tool_calls)
                   => run'.pc = "tools" /\ run'.k = run.k + 1 ]_vars
  /\ [][ run.pc = "tools" /\ run'.pc = "tools"
           => SubSeq(run'.toolResults, 1, Len(run.toolResults)) = run.toolResults ]_vars
  /\ [][ run.pc = "tools" /\ run'.pc # "tools"
           => \A n \in 1..Len(run'.toolResults) :
                Cancelled(run'.toolResults[n].result)
                  => /\ LastOf(MessagesAfter).role = "tool"
                     /\ LastOf(MessagesAfter).content.results[n]
                          = ResultEntry(run.llmResponse.tool_calls[n].name,
                                        run'.toolResults[n].result)
                     /\ LastOf(MessagesAfter).content.results[n].isError
                     /\ IF run.loopCount < run.maxLoops
                          THEN /\ run'.pc = "llm"
                               /\ llm'.calls = llm.calls + 1
                               /\ LastOf(llm'.request) = LastOf(MessagesAfter)
                          ELSE run'.pc = "idle" /\ out'.kind = "returned" ]_vars

C14_Witness ==
  /\ run.pc = "llm"
  /\ inv.prompted /\ inv.answer = "no"
  /\ inv.call.name = "write_file"
  /\ disk = InitialDisk
  /\ llm.calls = 2
  /\ LastOf(llm.request).role = "tool"
  /\ LastOf(llm.request).content.results[1].error = ERR_CANCELLED

\* the step starts the run of a sub-agent: handleInput with a matching directive
SubAgentStarts == run.pc = "idle" /\ run'.pc # "idle" /\ run'.who # 0

Registered == DOMAIN subAgents

\* C16: whenever no handleInput is in progress no sub-agent is registered in the
\* manager, however the last handleInput ended (a final response, the loop cap, an
\* error thrown out of the run); while the run of a sub-agent is in progress that
\* sub-agent and no other is registered, and the step that ends the run removes it.
C16_SubAgentRemoved ==
  /\ [](~Running => Registered = { })
  /\ [](Running => Registered = (IF run.who = 0 THEN { } ELSE { run.who }))
  /\ [][ Running /\ run.who # 0 /\ ~Running'
           => /\ out'.kind \in { "returned", "threw" }
              /\ run.who \notin DOMAIN subAgents' ]_vars

C16_Witness ==
  /\ ~Running
  /\ run.who # 0
  /\ out.kind = "threw" /\ llm.failed
  /\ llm.calls = 2
  /\ Registered = { }

\* the input has the form "@token rest", token a run of word characters
DirectiveForm(input) == Len(input) >= 2 /\ CharAt(input, 1) = "@" /\ IsWordChar(CharAt(input, 2))

\* the token of such an input, in lower case
DirectiveToken(input) == ToLowerCase(SubSeq(input, 2, SkipWord(input, 2) - 1))

\* C17 as stated: for every input of the form "@token rest" whose token, compared
\* without regard to case, is not the name of a sub-agent preset, parseAgentCommand
\* returns null, handleInput creates no sub-agent and runs the main agent with the
\* whole input as the user message.
C17_AsStated ==
  [][ \A input \in Inputs :
        ( /\ HandleInput(input)
          /\ DirectiveForm(input)
          /\ DirectiveToken(input) \notin AgentTypes )
        => /\ ~parseAgentCommand(input).matched
           /\ run'.who = 0
           /\ subAgents' = subAgents
           /\ mainAgent'.messages
                = Append(mainAgent.messages, Message("user", Undefined, TextContent(input)))
    ]_vars

\* the message histories of the agents that exist
Histories == { mainAgent.messages } \cup { subAgents[id].messages : id \in DOMAIN subAgents }

\* C18 as stated: every tool message in a history carries a tool_call_id equal to
\* the id of a tool call recorded in the tool_calls of the assistant message right
\* before it, and that assistant message records the tool calls the model emitted
\* in that turn.
C18_AsStated ==
  \A h \in Histories : \A n \in 1..Len(h) :
    h[n].role = "tool"
      => /\ n > 1
         /\ h[n - 1].role = "assistant"
         /\ Has(h[n], "tool_call_id")
         /\ Has(h[n - 1], "tool_calls")
         /\ h[n - 1].tool_calls = h[n - 1].content.json.tool_calls
         /\ \E k \in 1..Len(h[n - 1].tool_calls) :
              /\ Has(h[n - 1].tool_calls[k], "id")
              /\ h[n - 1].tool_calls[k].id = h[n].tool_call_id

\* the agents whose isRunning is true: 0 for the main agent, the id of a sub-agent
RunningAgents ==
  { who \in { 0 } \cup DOMAIN subAgents : AgentOf(who).isRunning }

\* C19: in every reachable state at most one Agent has isRunning = true: it is the
\* agent of the run in progress, and none when no run is in progress; a run starts
\* only when no agent is running, and while a sub-agent runs the main agent is not
\* running.
C19_OneAgentRuns ==
  /\ [](Cardinality(RunningAgents) <= 1)
  /\ [](RunningAgents = (IF Running THEN { run.who } ELSE { }))
  /\ [](Running /\ run.who # 0 => ~mainAgent.isRunning)
  /\ [][ ~Running /\ Running' => RunningAgents = { } ]_vars

C19_Witness ==
  /\ Running
  /\ run.who # 0
  /\ subAgents[run.who].isRunning
  /\ ~mainAgent.isRunning
  /\ Len(mainAgent.messages) = 2
  /\ run.pc = "tools" /\ inv.status = "confirm"

(***************************************************************************)
(* Properties of the delegated dispatch (DispatchSpec)                     *)
(***************************************************************************)
\* the capability of the invocation was listed when the schema was exported
ListedAtExport == findToolServerHit(mcp.servers, inv.call.name)

WorkdirOrAncestor(p, config) ==
  p \in { config.workingDirectory } \cup AncestorsOf(config.workingDirectory)

\* C25: a delete_file whose resolved target is the working directory or one of its
\* ancestors returns a failure, shows no confirmation prompt and deletes nothing.
C25_WorkdirNotDeleted ==
  [][ ( /\ inv'.call.name = "delete_file"
        /\ ExecuteEntered(inv')
        /\ ~Falsy(inv'.call.arguments.path)
        /\ WorkdirOrAncestor(PathResolve(appConfig.workingDirectory, inv'.call.arguments.path),
                             appConfig) )
      => /\ inv'.status = "done" /\ ~inv'.result.success
         /\ ~inv'.prompted
         /\ inv'.effect = "none"
         /\ disk' = disk ]_vars

C25_Witness ==
  /\ inv.call.name = "delete_file"
  /\ InvPath = "."
  /\ inv.call.arguments.recursive
  /\ PathResolve(appConfig.workingDirectory, InvPath) = appConfig.workingDirectory
  /\ inv.status = "done" /\ inv.result = Fail(ERR_DELETE_WORKDIR)
  /\ ~inv.prompted
  /\ disk = InitialDisk

\* C27 as stated: the loop-limit warning is emitted only when the run was cut off
\* by the cap: a run that returns because the model's response had no tool calls
\* emits no warning, also when that response is the N-th model call of the run.
C27_AsStated ==
  [][ Running /\ out'.kind = "returned"
        => (out'.warned <=> Len(run'.llmResponse.tool_calls) > 0) ]_vars

(***************************************************************************)
(* The agent's dispatch against ToolManager.executeTool (DispatchSpec)     *)
(***************************************************************************)
\* the name is no builtin and a connected capability server exposes it
Delegated(name) ==
  ~getTool(name) /\ mcp.mcpEnabled /\ findToolServerHit(mcp.servers, name)

\* C28 as stated: a tool call that names a delegated capability listed in the
\* agent's availableTools is handed to the capability server when the agent
\* dispatches it; for every tool name the agent may use, the agent's dispatch does
\* what ToolManager.executeTool does for the same call.
C28_AsStated ==
  /\ []( ( /\ inv.via = "direct"
           /\ Delegated(inv.call.name)
           /\ ~NotAvailable(inv.agent, inv.call.name) )
         => inv.mcpRequests = 1 )
  /\ [][ ( /\ invocations' = invocations + 1
           /\ inv'.via = "direct"
           /\ ~NotAvailable(inv'.agent, inv'.call.name) )
         => inv' = ToolManager_executeTool(NewInvocation("direct", inv'.agent, inv'.call),
                                           appConfig, disk, mcp.mcpEnabled).inv ]_vars

(***************************************************************************)
(* The capability set of an agent (Spec)                                   *)
(***************************************************************************)
\* the agent of the run in progress is a review sub-agent
ReviewRuns == Running /\ run.who # 0 /\ AgentOf(run.who).config.type = "review"

\* C29: while a review sub-agent runs the disk does not change, no subprocess is
\* started, no confirmation is asked and no effect of write_file, append_file,
\* delete_file or run_command occurs, whatever calls the model emits; and the
\* execute of a tool is entered in a run only for a tool named in the
\* availableTools of the preset of the agent.
C29_NarrowCapabilitySet ==
  /\ [][ ReviewRuns
           => /\ disk' = disk
              /\ proc' = NoProc
              /\ inv'.effect = "none"
              /\ ~inv'.prompted
              /\ ExecuteEntered(inv')
                   => inv'.call.name \in { "list_files", "read_file", "search_codebase" } ]_vars
  /\ []( inv.via = "run" /\ ExecuteEntered(inv)
           => /\ inv.agent \in DOMAIN AGENT_PRESETS
              /\ ArrayIncludes(AGENT_PRESETS[inv.agent].availableTools, inv.call.name) )

C29_Witness ==
  /\ ReviewRuns
  /\ run.pc = "tools" /\ run.k = 2
  /\ run.toolResults[1].name = "write_file"
  /\ run.toolResults[1].result = Fail(ERR_NO_PERMISSION)
  /\ inv.call.name = "write_file" /\ ~ExecuteEntered(inv)
  /\ disk = InitialDisk

(***************************************************************************)
(* Properties of the provider adapters and the LLM client                  *)
(***************************************************************************)
\* the system payloads of a wire request: its system parameter, its system-role messages
SystemPayloads(request) ==
  (IF Has(request, "system") THEN 1 ELSE 0)
    + Cardinality({ n \in 1..Len(request.messages) : request.messages[n].role = "system" })

\* C21 as stated: whatever the provider and whether or not a project context is
\* set, the wire request of a call carries exactly one system payload.
C21_AsStated ==
  client.call.active => SystemPayloads(client.call.request) = 1

\* the wire list starts with the user and no two neighbours have the same role
Alternates(wire) ==
  /\ Len(wire) > 0
  /\ wire[1].role = "user"
  /\ \A n \in 1..Len(wire) - 1 : wire[n].role # wire[n + 1].role

\* C22 as stated: for the messages of every call the agent loop makes, the wire
\* list of the Anthropic adapter starts with a user message and never has two
\* adjacent messages of the same role.
C22_AsStated ==
  llm.calls > 0 => Alternates(anthropic_convertMessages(llm.request))

\* the argument texts of the vocabulary that are valid JSON, and what they denote
ValidArguments == { "{\"path\":\"a.txt\"}" }
Denoted(text) == [NoArgs EXCEPT !.path = "a.txt"]

\* the wire calls with valid arguments, in their order, as native tool calls
KeptCalls(tool_calls) ==
  LET Valid(tc) == tc.arguments \in ValidArguments
      Kept(valid) == [n \in 1..Len(valid) |->
                        NativeToolCall(valid[n].id, valid[n].name, Denoted(valid[n].arguments))]
  IN Kept(SelectSeq(tool_calls, Valid))

\* C23: when an OpenAI-compatible adapter parses a response, each tool call whose
\* arguments text is not valid JSON is dropped, every other tool call is returned
\* in the original order, the text content is returned, and the call does not throw.
C23_BadArgumentsDropOneCall ==
  client.data # << >>
    => /\ ~client.parsed.threw
       /\ client.parsed.tool_calls = KeptCalls(client.data[1].tool_calls)
       /\ client.parsed.content
            = (IF client.data[1].content = Undefined THEN "" ELSE client.data[1].content)

\* a response whose first call has a cut-off arguments text and whose second is valid
C23_Witness ==
  /\ client.data # << >>
  /\ client.call.provider = "kimi"
  /\ Len(client.data[1].tool_calls) = 2
  /\ client.data[1].tool_calls[1].arguments = "{\"path\":"
  /\ client.data[1].content = "done"
  /\ client.parsed.content = "done"
  /\ client.parsed.tool_calls
       = << NativeToolCall("call_2", "read_file", [NoArgs EXCEPT !.path = "a.txt"]) >>

\* C26 as stated: updateConfig and switchProvider install a new configuration
\* object and leave every configuration object that exists as it is.
C26_AsStated ==
  [][ \/ \E model \in Models : SwitchModel(model)
      \/ \E provider \in Providers, model \in { Undefined, "m2" } :
           SwitchProvider(provider, model)
      => /\ client'.config \notin 1..Len(client.heap)
         /\ \A o \in 1..Len(client.heap) : client'.heap[o] = client.heap[o] ]_vars

\* C30 as stated: the parsed response of an OpenAI-compatible adapter has the
\* stop reason tool_use exactly when its list of tool calls is not empty.
C30_AsStated ==
  client.data # << >>
    => (client.parsed.stop_reason = "tool_use" <=> Len(client.parsed.tool_calls) > 0)

=============================================================================
